---- MODULE Spec2Model ----
(***************************************************************************)
(* Model of multi-server.c: the process-per-connection HTTP server         *)
(* (fork + shared-memory statistics, lines 1-572) and the thread-pool HTTP *)
(* server (blocking queue + worker threads, lines 575-1150).               *)
(*                                                                         *)
(* C strings are modelled as sequences of one-character strings, so that   *)
(* strtok, strcmp, strstr, sprintf and fgets are computed, not assumed.    *)
(***************************************************************************)
EXTENDS Integers, Sequences, FiniteSets, TLC

(* ------------------------------------------------------------------ *)
(* Bounds of the model                                                  *)
(* ------------------------------------------------------------------ *)

\* connections accepted by the forking server in one behaviour
MaxConn == 2

\* SIGUSR1 deliveries in one behaviour of the forking server
MaxSignals == 1

\* largest file of the document root, in whole chunks of DISK_IO_BUF_SIZE
MaxChunks == 2

\* largest counter value the statistics area starts a single request with
MaxCount == 3

\* worker threads of the pool (the program starts 16)
N_THREADS == 2

\* connections that reach the thread-pool server in one behaviour
MaxSock == 2

\* arguments of the thread-pool server: its name, argc - 2 ports, the web root
argc == 4

(* ------------------------------------------------------------------ *)
(* Program constants                                                    *)
(* ------------------------------------------------------------------ *)

DISK_IO_BUF_SIZE == 4096

\* sizeof(requestLine), sizeof(line)
LineBufSize == 1000

\* errno value of an interrupted system call
EINTR == 4

(* ------------------------------------------------------------------ *)
(* C strings                                                            *)
(* ------------------------------------------------------------------ *)

\* the NULL pointer, as a value no character sequence equals
NULL == <<"(null)">>

Min(a, b) == IF a <= b THEN a ELSE b

\* string concatenation (strcat)
Cat(s, t) == s \o t

\* position of the first element of s at or after i that satisfies the test
\* In(S) (Notin(S)), or Len(s) + 1
FirstIn(s, i, S) ==
    IF \E j \in i..Len(s) : s[j] \in S
    THEN CHOOSE j \in i..Len(s) : s[j] \in S /\ \A k \in i..(j - 1) : s[k] \notin S
    ELSE Len(s) + 1

FirstNotIn(s, i, S) ==
    IF \E j \in i..Len(s) : s[j] \notin S
    THEN CHOOSE j \in i..Len(s) : s[j] \notin S /\ \A k \in i..(j - 1) : s[k] \in S
    ELSE Len(s) + 1

\* strstr(s, sub) != NULL
strstr(s, sub) ==
    \E i \in 1..(Len(s) - Len(sub) + 1) : SubSeq(s, i, i + Len(sub) - 1) = sub

\* char *token_separators = "\t \r\n"
token_separators == {"\t", " ", "\r", "\n"}

\* strtok on the text s from position i: the next token and the position the
\* next call continues from
strtok(s, i) ==
    LET b == FirstNotIn(s, i, token_separators)
    IN  IF b > Len(s)
        THEN [tok |-> NULL, next |-> Len(s) + 1]
        ELSE LET e == FirstIn(s, b, token_separators)
             IN  [tok |-> SubSeq(s, b, e - 1),
                  next |-> IF e > Len(s) THEN e ELSE e + 1]

\* fgets(buf, size, fp) on a stream whose unread bytes are inp: the line read
\* (NULL at end of file) and the bytes left unread
fgets(inp, size) ==
    IF Len(inp) = 0
    THEN [line |-> NULL, rest |-> inp]
    ELSE LET lim == Min(size - 1, Len(inp))
             nl  == FirstIn(SubSeq(inp, 1, lim), 1, {"\n"})
             n   == Min(nl, lim)
         IN  [line |-> SubSeq(inp, 1, n), rest |-> SubSeq(inp, n + 1, Len(inp))]

DigitChar(d) == <<"0", "1", "2", "3", "4", "5", "6", "7", "8", "9">>[d + 1]

\* sprintf("%d", n) for n >= 0
RECURSIVE Itoa(_)
Itoa(n) == IF n < 10 THEN <<DigitChar(n)>> ELSE Itoa(n \div 10) \o <<DigitChar(n % 10)>>

CRLF == <<"\r", "\n">>

(* ------------------------------------------------------------------ *)
(* HTTP status codes                                                    *)
(* ------------------------------------------------------------------ *)

HTTP_StatusCodes ==
    << [status |-> 200, reason |-> <<"O","K">>],
       [status |-> 201, reason |-> <<"C","r","e","a","t","e","d">>],
       [status |-> 202, reason |-> <<"A","c","c","e","p","t","e","d">>],
       [status |-> 204, reason |-> <<"N","o"," ","C","o","n","t","e","n","t">>],
       [status |-> 301, reason |-> <<"M","o","v","e","d"," ","P","e","r","m","a","n","e","n","t","l","y">>],
       [status |-> 302, reason |-> <<"M","o","v","e","d"," ","T","e","m","p","o","r","a","r","i","l","y">>],
       [status |-> 304, reason |-> <<"N","o","t"," ","M","o","d","i","f","i","e","d">>],
       [status |-> 400, reason |-> <<"B","a","d"," ","R","e","q","u","e","s","t">>],
       [status |-> 401, reason |-> <<"U","n","a","u","t","h","o","r","i","z","e","d">>],
       [status |-> 403, reason |-> <<"F","o","r","b","i","d","d","e","n">>],
       [status |-> 404, reason |-> <<"N","o","t"," ","F","o","u","n","d">>],
       [status |-> 500, reason |-> <<"I","n","t","e","r","n","a","l"," ","S","e","r","v","e","r"," ","E","r","r","o","r">>],
       [status |-> 501, reason |-> <<"N","o","t"," ","I","m","p","l","e","m","e","n","t","e","d">>],
       [status |-> 502, reason |-> <<"B","a","d"," ","G","a","t","e","w","a","y">>],
       [status |-> 503, reason |-> <<"S","e","r","v","i","c","e"," ","U","n","a","v","a","i","l","a","b","l","e">>] >>

getReasonPhrase(statusCode) ==
    IF \E i \in 1..Len(HTTP_StatusCodes) : HTTP_StatusCodes[i].status = statusCode
    THEN HTTP_StatusCodes[CHOOSE i \in 1..Len(HTTP_StatusCodes) :
                              HTTP_StatusCodes[i].status = statusCode].reason
    ELSE <<"U","n","k","n","o","w","n"," ","S","t","a","t","u","s"," ","C","o","d","e">>

\* "HTTP/1.0 <code> <reason>\r\n\r\n"
StatusLine(statusCode) ==
    <<"H","T","T","P","/","1",".","0"," ">> \o Itoa(statusCode) \o <<" ">>
        \o getReasonPhrase(statusCode) \o CRLF \o CRLF

\* "<html><body>\n<h1><code> <reason></h1>\n</body></html>\n"
ErrorBody(statusCode) ==
    <<"<","h","t","m","l",">","<","b","o","d","y",">","\n">>
        \o <<"<","h","1",">">> \o Itoa(statusCode) \o <<" ">> \o getReasonPhrase(statusCode)
        \o <<"<","/","h","1",">","\n">>
        \o <<"<","/","b","o","d","y",">","<","/","h","t","m","l",">","\n">>

\* a faulty sendStatusLine that leaves the HTML body out
StatusBufNoBody(statusCode) == StatusLine(statusCode)

\* the buffer sendStatusLine hands to Send
StatusBuf(statusCode) ==
    IF statusCode # 200
    THEN StatusLine(statusCode) \o ErrorBody(statusCode)
    ELSE StatusLine(statusCode)

(* ------------------------------------------------------------------ *)
(* Request line: tokens and validation (both servers, same text)        *)
(* ------------------------------------------------------------------ *)

\* method, requestURI, httpVersion and extraThingsOnRequestLine, by four calls
\* of strtok on the line read
Tokenize(requestLine) ==
    LET t1 == strtok(requestLine, 1)
        t2 == strtok(requestLine, t1.next)
        t3 == strtok(requestLine, t2.next)
        t4 == strtok(requestLine, t3.next)
    IN  [method |-> t1.tok, requestURI |-> t2.tok, httpVersion |-> t3.tok,
         extraThingsOnRequestLine |-> t4.tok]

\* a faulty check that looks for "/../" only and misses a trailing "/.."
HasDotDotInside(requestURI) ==
    /\ Len(requestURI) >= 3
    /\ strstr(requestURI, <<"/", ".", ".", "/">>)

\* requestURI ends with "/.." or contains "/../" (checked when len >= 3)
HasDotDot(requestURI) ==
    LET len == Len(requestURI)
    IN  /\ len >= 3
        /\ \/ SubSeq(requestURI, len - 2, len) = <<"/", ".", ".">>
           \/ strstr(requestURI, <<"/", ".", ".", "/">>)

\* faulty checks that accept any version token
ValidateAnyVersion(t) ==
    IF \/ t.method = NULL \/ t.requestURI = NULL \/ t.httpVersion = NULL
       \/ t.extraThingsOnRequestLine # NULL
    THEN 501
    ELSE IF t.method # <<"G","E","T">>
    THEN 501
    ELSE IF t.requestURI = NULL \/ t.requestURI[1] # "/"
    THEN 400
    ELSE IF HasDotDot(t.requestURI)
    THEN 400
    ELSE 0

\* the status the checks on the request line end with, 0 when they all pass
Validate(t) ==
    IF \/ t.method = NULL \/ t.requestURI = NULL \/ t.httpVersion = NULL
       \/ t.extraThingsOnRequestLine # NULL
    THEN 501
    ELSE IF t.method # <<"G","E","T">>
    THEN 501
    ELSE IF /\ t.httpVersion # <<"H","T","T","P","/","1",".","0">>
            /\ t.httpVersion # <<"H","T","T","P","/","1",".","1">>
    THEN 501
    ELSE IF t.requestURI = NULL \/ t.requestURI[1] # "/"
    THEN 400
    ELSE IF HasDotDot(t.requestURI)
    THEN 400
    ELSE 0

\* a line that ends the headers
IsBlankLine(line) == line = CRLF \/ line = <<"\n">>

(* ------------------------------------------------------------------ *)
(* The document root                                                    *)
(* ------------------------------------------------------------------ *)

webRoot == <<"/", "w">>

\* bytes a file's content is made of; 7 values, so that no two chunks of
\* DISK_IO_BUF_SIZE bytes are equal
ByteAt(i) == <<"a", "b", "c", "d", "e", "f", "g">>[(i % 7) + 1]

\* sizes of the regular files /w/f0 .. /w/f6
FileSizes ==
    [d \in {"0", "1", "2", "3", "4", "5", "6"} |->
        CASE d = "0" -> 0
          [] d = "1" -> 2
          [] d = "2" -> DISK_IO_BUF_SIZE - 1
          [] d = "3" -> DISK_IO_BUF_SIZE
          [] d = "4" -> DISK_IO_BUF_SIZE + 1
          [] d = "5" -> MaxChunks * DISK_IO_BUF_SIZE
          [] d = "6" -> MaxChunks * DISK_IO_BUF_SIZE + 1]

IsFilePath(file) ==
    /\ Len(file) = 5
    /\ SubSeq(file, 1, 4) = <<"/", "w", "/", "f">>
    /\ file[5] \in DOMAIN FileSizes

IndexPath == webRoot \o <<"/">> \o <<"i","n","d","e","x",".","h","t","m","l">>

\* stat(file, &st) == 0 && S_ISDIR(st.st_mode)
IsDirectory(file) == file \in {webRoot, webRoot \o <<"/", "d">>}

\* fopen(file, "rb") != NULL
CanOpen(file) == IsFilePath(file) \/ file = IndexPath

FileSize(file) == IF IsFilePath(file) THEN FileSizes[file[5]] ELSE 3

FileContents(file) == [i \in 1..FileSize(file) |-> ByteAt(i)]

\* strcpy(file, webRoot); strcat(file, requestURI); "index.html" appended
\* when the path ends with '/'
FilePath(requestURI) ==
    LET file == Cat(webRoot, requestURI)
    IN  IF file[Len(file)] = "/"
        THEN Cat(file, <<"i","n","d","e","x",".","h","t","m","l">>)
        ELSE file

(* ------------------------------------------------------------------ *)
(* State                                                                *)
(* ------------------------------------------------------------------ *)

VARIABLES
    area,      \* struct reqstat in the shared mapping: sem and the four counters
    key,       \* the parent's flag set by the SIGUSR1 handler
    parent,    \* the parent process: its place in main's loop and its locals
    child,     \* the forked children, one per accepted connection
    nsig,      \* SIGUSR1 deliveries so far
    fin,       \* per status class, the connections whose lifecycle has ended
    reports,   \* statistics reports the parent has printed to stderr
    q,         \* struct queue: mutex, first, last, length
    msg,       \* the struct message nodes malloc has handed out
    waiting,   \* the threads asleep on q->cond
    acc,       \* the main thread of the thread-pool server
    thr,       \* the worker threads
    backlog,   \* per listening socket, the connections not yet accepted
    nsock,     \* connections that have reached the listening sockets
    puts,      \* the sockets queue_put has linked, in order
    gets,      \* the sockets queue_get has unlinked, in order
    closes     \* per socket, how often a worker has closed it

forkVars == <<area, key, parent, child, nsig, fin, reports>>

thrVars == <<q, msg, waiting, acc, thr, backlog, nsock, puts, gets, closes>>

vars == <<forkVars, thrVars>>

ChildIds == 1..MaxConn

WorkerIds == 1..N_THREADS

\* the connections of the thread-pool server, numbered as they arrive
SockIds == 1..MaxSock

\* the main thread, as owner of the queue mutex
MainThread == 0

\* the listening sockets: descriptors 3 .. argc, one per port argument
servSocks == 3..argc

\* nfds = argc + 1
nfds == argc + 1

(* ------------------------------------------------------------------ *)
(* One connection's request lifecycle: locals of the child (fork        *)
(* server) or of the worker thread (thread-pool server)                 *)
(* ------------------------------------------------------------------ *)

\* a process or thread that handles no connection
NoConn ==
    [pc |-> "none", inp |-> <<>>, requestLine |-> <<>>, method |-> <<>>, requestURI |-> <<>>,
     httpVersion |-> <<>>, statusCode |-> 0, nhdr |-> 0, fsAccess |-> 0,
     fp |-> "NULL", file |-> <<>>, pos |-> 0, ferr |-> FALSE,
     nsend |-> 0, tx |-> <<>>, out |-> <<>>,
     logged |-> <<>>, closed |-> FALSE,
     semres |-> 0, hold |-> FALSE, reg |-> 0, site |-> "", ret |-> "",
     snap |-> <<>>, incs |-> 0, clntSock |-> 0, pmsg |-> 0]

\* the locals when the request line is about to be read from a connection
NewConn == [NoConn EXCEPT !.pc = "fgets"]

\* results send() can give for a buffer of len bytes: all of it, a failure,
\* or a short count
SendResults(len) == {len, -1} \cup (IF len > 1 THEN {1} ELSE {})

\* Send(sock, buf) and send(sock, buf, n, 0): the bytes handed over and the
\* bytes the connection took
Send(r, buf, res) ==
    [r EXCEPT !.nsend = @ + 1,
              !.tx = @ \o buf,
              !.out = @ \o (IF res < 0 THEN <<>> ELSE SubSeq(buf, 1, res))]

\* fgets of the request line, strtok and the checks on the tokens
ReadRequestLine(r) ==
    LET g == fgets(r.inp, LineBufSize)
        t == Tokenize(g.line)
        s == Validate(t)
    IN  IF g.line = NULL
        THEN [r EXCEPT !.requestLine = NULL, !.statusCode = 400, !.pc = "loop_end"]
        ELSE LET r1 == [r EXCEPT !.inp = g.rest, !.requestLine = g.line,
                                 !.method = t.method,
                                 !.requestURI = t.requestURI,
                                 !.httpVersion = t.httpVersion]
             IN  IF s # 0
                 THEN [r1 EXCEPT !.statusCode = s, !.pc = "sendStatusLine",
                                 !.ret = "loop_end"]
                 ELSE [r1 EXCEPT !.pc = "headers"]

\* one turn of the loop that skips the headers
ReadHeader(r) ==
    LET g == fgets(r.inp, LineBufSize)
    IN  IF g.line = NULL
        THEN [r EXCEPT !.nhdr = @ + 1, !.statusCode = 400, !.pc = "loop_end"]
        ELSE [r EXCEPT !.nhdr = @ + 1, !.inp = g.rest,
                       !.pc = IF IsBlankLine(g.line) THEN "handleFileRequest"
                              ELSE "headers"]

\* a read of the socket that a signal handler interrupts: fgets returns NULL
InterruptedRead(r) ==
    [r EXCEPT !.requestLine = IF r.pc = "fgets" THEN NULL ELSE @,
              !.nhdr = IF r.pc = "headers" THEN @ + 1 ELSE @,
              !.statusCode = 400, !.pc = "loop_end"]

\* a faulty loop while (fread(...) == sizeof(buf)): a last chunk shorter than
\* DISK_IO_BUF_SIZE is not sent
ReadAndSendFullChunk(r, readFails, res) ==
    LET left == FileSize(r.file) - r.pos
        n    == IF readFails THEN 0 ELSE Min(DISK_IO_BUF_SIZE, left)
        buf  == SubSeq(FileContents(r.file), r.pos + 1, r.pos + n)
    IN  IF n < DISK_IO_BUF_SIZE
        THEN [r EXCEPT !.ferr = readFails, !.fp = "closed", !.pc = "loop_end"]
        ELSE LET r1 == Send(r, buf, res)
             IN  IF res # n
                 THEN [r1 EXCEPT !.fp = "closed", !.pc = "loop_end"]
                 ELSE [r1 EXCEPT !.pos = @ + n]

\* a loop that goes on to the next chunk after a send that failed
ReadAndSendChunkGoesOn(r, readFails, res) ==
    LET left == FileSize(r.file) - r.pos
        n    == IF readFails THEN 0 ELSE Min(DISK_IO_BUF_SIZE, left)
        buf  == SubSeq(FileContents(r.file), r.pos + 1, r.pos + n)
    IN  IF n = 0
        THEN [r EXCEPT !.ferr = readFails, !.fp = "closed", !.pc = "loop_end"]
        ELSE [Send(r, buf, res) EXCEPT !.pos = @ + n]

\* one turn of the loop that sends the file: fread of at most
\* DISK_IO_BUF_SIZE bytes (0 at end of file or when the read fails), send of
\* what was read; func_end follows the loop
ReadAndSendChunk(r, readFails, res) ==
    LET left == FileSize(r.file) - r.pos
        n    == IF readFails THEN 0 ELSE Min(DISK_IO_BUF_SIZE, left)
        buf  == SubSeq(FileContents(r.file), r.pos + 1, r.pos + n)
    IN  IF n = 0
        THEN [r EXCEPT !.ferr = readFails, !.fp = "closed", !.pc = "loop_end"]
        ELSE LET r1 == Send(r, buf, res)
             IN  IF res # n
                 THEN [r1 EXCEPT !.fp = "closed", !.pc = "loop_end"]
                 ELSE [r1 EXCEPT !.pos = @ + n]

\* loop_end: the log line and the close of the client socket
LogAndClose(r, next) ==
    [r EXCEPT !.logged = Append(@, r.statusCode), !.closed = TRUE, !.pc = next]

(* ------------------------------------------------------------------ *)
(* Fork server: statistics page, directory listing, file requests       *)
(* ------------------------------------------------------------------ *)

\* the places where a child calls sem_wait: sendStatusLine (line 178) and the
\* /statistics and directory branches of handleFileRequest (lines 278, 303)
SemSites == {"sendStatusLine", "statistics", "directory"}

\* the condition of the loop while (EINTR == semres) that follows each
\* semres = sem_wait(&(area->sem)): sem_wait is called again while it holds
SemWaitLoops(semres) == EINTR = semres

\* the counter a child increments between sem_wait and sem_post
CounterOf(r) ==
    IF r.site = "sendStatusLine"
    THEN LET startnum == r.statusCode \div 100
         IN  CASE startnum = 2 -> "num_two"
               [] startnum = 3 -> "num_three"
               [] startnum = 4 -> "num_four"
               [] startnum = 5 -> "num_five"
               [] OTHER -> "none"
    ELSE "num_two"

\* a /statistics branch that calls sendStatusLine after its own increment
AfterSemPostCountsAgain(site) ==
    CASE site = "sendStatusLine" -> "Send"
      [] site = "statistics" -> "sendStatusLine"
      [] site = "directory" -> "list_directory"

\* where a child goes after sem_post
AfterSemPost(site) ==
    CASE site = "sendStatusLine" -> "Send"
      [] site = "statistics" -> "showstatistics"
      [] site = "directory" -> "list_directory"

\* char statistics[11] = "/statistics" holds no terminating NUL, so
\* strcmp(statistics, requestURI) reads past the array; for a requestURI that
\* begins with the eleven characters the result depends on the bytes that
\* follow the array
StatisticsPrefix(requestURI) ==
    /\ Len(requestURI) >= 11
    /\ SubSeq(requestURI, 1, 11) = <<"/","s","t","a","t","i","s","t","i","c","s">>

\* the results strcmp(statistics, requestURI) == 0 can have
StrcmpStatistics(requestURI) ==
    IF StatisticsPrefix(requestURI) THEN {TRUE, FALSE} ELSE {FALSE}

\* handleFileRequest of the fork server up to its first sem_wait
HandleFileRequestFork(r, isStatistics) ==
    LET file == FilePath(r.requestURI)
    IN  IF isStatistics
        THEN [r EXCEPT !.statusCode = 200, !.pc = "statistics"]
        ELSE IF IsDirectory(file)
        THEN [r EXCEPT !.file = file, !.fsAccess = @ + 1, !.statusCode = 200,
                       !.pc = "directory"]
        ELSE IF ~CanOpen(file)
        THEN [r EXCEPT !.file = file, !.fsAccess = @ + 2, !.statusCode = 404,
                       !.pc = "sendStatusLine", !.ret = "loop_end"]
        ELSE [r EXCEPT !.file = file, !.fsAccess = @ + 2, !.fp = "open",
                       !.statusCode = 200,
                       !.pc = "sendStatusLine", !.ret = "fread"]

\* the buffer showstatistics sends: a status line without reason phrase and
\* the page with the four counters and their sum
StatisticsBuf(statusCode, two, three, four, five, sum) ==
    <<"H","T","T","P","/","1",".","0"," ">> \o Itoa(statusCode) \o <<" ">> \o CRLF \o CRLF
        \o <<"<","h","t","m","l",">","<","b","o","d","y",">","\n">>
        \o <<"<","h","1",">","R","e","q","u","e","s","t"," ","S","t","a","t","i","s","t","i","c","s","<","/","h","1",">">>
        \o <<"N","u","m","b","e","r"," ","o","f"," ","2","X","X"," ",":"," ">> \o Itoa(two) \o <<" ","\n">>
        \o <<"<","b","r",">","N","u","m","b","e","r"," ","o","f"," ","3","X","X"," ",":"," ">> \o Itoa(three) \o <<" ","\n">>
        \o <<"<","b","r",">","N","u","m","b","e","r"," ","o","f"," ","4","X","X"," ",":"," ">> \o Itoa(four) \o <<" ","\n">>
        \o <<"<","b","r",">","N","u","m","b","e","r"," ","o","f"," ","5","X","X"," ",":"," ">> \o Itoa(five) \o <<" ","\n">>
        \o <<"<","b","r",">","S","u","m"," ",":"," ">> \o Itoa(sum) \o <<" ","\n">>
        \o <<"<","/","b","o","d","y",">","<","/","h","t","m","l",">","\n">>

\* the counter the i-th %d of showstatistics reads
SnapCounter(i) == <<"num_two", "num_three", "num_four", "num_five">>[i]

CounterSum(a) == a.num_two + a.num_three + a.num_four + a.num_five

\* what read(fd[0], line, 1000) leaves in line: the output of ls -al
LsOutput == <<"t","o","t","a","l"," ","0","\n">>

\* line is not NUL-terminated, so Send(clntSock, line) may send bytes that
\* follow the output of ls
LsGarbage == {<<>>, <<"?">>}

(* ------------------------------------------------------------------ *)
(* Requests the peers send                                              *)
(* ------------------------------------------------------------------ *)

GET == <<"G","E","T">>
POST == <<"P","O","S","T">>
HTTP10 == <<"H","T","T","P","/","1",".","0">>
HTTP11 == <<"H","T","T","P","/","1",".","1">>
HTTP20 == <<"H","T","T","P","/","2",".","0">>
URI_statistics == <<"/","s","t","a","t","i","s","t","i","c","s">>
HostHeader == <<"H","o","s","t",":"," ","x","\r","\n">>

\* a request line: the three tokens with sep between them, then eol
RequestLine(m, u, v, sep, eol) == m \o sep \o u \o sep \o v \o eol

\* a whole request with a blank line after the request line
Request(m, u, v) == RequestLine(m, u, v, <<" ">>, CRLF) \o CRLF

\* what the peers of the fork server send before they close: nothing, or a
\* request for an empty file, for a directory, for the statistics page
ForkInputs ==
    { <<>>,
      Request(GET, <<"/","f","0">>, HTTP10),
      Request(GET, <<"/","d">>, HTTP10),
      Request(GET, URI_statistics, HTTP10) }

(* ------------------------------------------------------------------ *)
(* Fork server: the parent (main, lines 403-569)                        *)
(* ------------------------------------------------------------------ *)

\* children forked so far
Born == {c \in ChildIds : child[c].pc # "none"}

\* children that have not yet exited
Live == {c \in ChildIds : child[c].pc \notin {"none", "exit", "reaped"}}

\* accept returns a connection and fdopen wraps it
ParentAccept ==
    /\ parent.pc = "accept"
    /\ Cardinality(Born) < MaxConn
    /\ parent' = [parent EXCEPT !.pc = "fork", !.naccepted = @ + 1,
                                 !.clntSock = parent.naccepted + 1]
    /\ UNCHANGED <<thrVars, area, key, child, nsig, fin, reports>>

\* accept fails with an errno other than EINTR: die("accept failed")
ParentAcceptFails ==
    /\ parent.pc = "accept"
    /\ parent' = [parent EXCEPT !.pc = "dead"]
    /\ UNCHANGED <<thrVars, area, key, child, nsig, fin, reports>>

\* fork: the child starts at the request line, the parent goes on
ParentFork ==
    /\ parent.pc = "fork"
    /\ LET c == Cardinality(Born) + 1
       IN  /\ child' = [child EXCEPT ![c] = [NewConn EXCEPT !.clntSock = parent.clntSock]]
           /\ parent' = [parent EXCEPT !.pc = "waitpid", !.pid = c]
    /\ UNCHANGED <<thrVars, area, key, nsig, fin, reports>>

\* fork fails: die("fork error")
ParentForkFails ==
    /\ parent.pc = "fork"
    /\ parent' = [parent EXCEPT !.pc = "dead"]
    /\ UNCHANGED <<thrVars, area, key, child, nsig, fin, reports>>

\* fclose(clntFp) and waitpid(pid, &status, WNOHANG): reaps the child just
\* forked if it has exited already
ParentWaitpid ==
    /\ parent.pc = "waitpid"
    /\ child' = IF child[parent.pid].pc = "exit"
                THEN [child EXCEPT ![parent.pid].pc = "reaped"]
                ELSE child
    /\ parent' = [parent EXCEPT !.pc = "accept"]
    /\ UNCHANGED <<thrVars, area, key, nsig, fin, reports>>

\* sem_wait of the report (line 418) takes the semaphore
ParentSemWait ==
    /\ parent.pc = "report"
    /\ area.sem > 0
    /\ area' = [area EXCEPT !.sem = @ - 1]
    /\ parent' = [parent EXCEPT !.semres = 0, !.hold = TRUE,
                    !.pc = IF SemWaitLoops(0) THEN "report" ELSE "fprintf"]
    /\ UNCHANGED <<thrVars, key, child, nsig, fin, reports>>

\* fprintf(stderr, "Request Statistics...")
ParentReport ==
    /\ parent.pc = "fprintf"
    /\ reports' = reports + 1
    /\ parent' = [parent EXCEPT !.pc = "sem_post"]
    /\ UNCHANGED <<thrVars, area, key, child, nsig, fin>>

\* sem_post, key = 0, goto acc
ParentSemPost ==
    /\ parent.pc = "sem_post"
    /\ area' = [area EXCEPT !.sem = @ + 1]
    /\ key' = 0
    /\ parent' = [parent EXCEPT !.hold = FALSE, !.semres = 0, !.pc = "accept"]
    /\ UNCHANGED <<thrVars, child, nsig, fin, reports>>

\* a parent in which a signal that arrives after accept has returned sends
\* the parent to the report as well, leaving the accepted connection behind
SignalParentDrops ==
    /\ nsig < MaxSignals
    /\ parent.pc \notin {"none", "dead"}
    /\ nsig' = nsig + 1
    /\ key' = 1
    /\ parent' =
          IF parent.pc \in {"accept", "fork"}
          THEN [parent EXCEPT !.pc = "report", !.clntSock = -1]
          ELSE IF parent.pc = "report" /\ area.sem = 0
          THEN [parent EXCEPT !.semres = -1,
                   !.pc = IF SemWaitLoops(-1) THEN "report" ELSE "fprintf"]
          ELSE parent
    /\ UNCHANGED <<thrVars, area, child, fin, reports>>

\* SIGUSR1 reaches the parent: sig_int sets key; a blocked accept returns -1
\* with errno EINTR, a blocked sem_wait returns -1
SignalParent ==
    /\ nsig < MaxSignals
    /\ parent.pc \notin {"none", "dead"}
    /\ nsig' = nsig + 1
    /\ key' = 1
    /\ parent' =
          IF parent.pc = "accept"
          THEN [parent EXCEPT !.pc = "report", !.clntSock = -1]
          ELSE IF parent.pc = "report" /\ area.sem = 0
          THEN [parent EXCEPT !.semres = -1,
                   !.pc = IF SemWaitLoops(-1) THEN "report" ELSE "fprintf"]
          ELSE parent
    /\ UNCHANGED <<thrVars, area, child, fin, reports>>

(* ------------------------------------------------------------------ *)
(* Fork server: a child (main, lines 445-558)                           *)
(* ------------------------------------------------------------------ *)

\* the request line, read from a peer that sends one of the streams of inputs
\* and then closes
ChildReads(c, inputs) ==
    /\ child[c].pc = "fgets"
    /\ \E inp \in inputs :
          child' = [child EXCEPT ![c] = ReadRequestLine([@ EXCEPT !.inp = inp])]
    /\ UNCHANGED <<thrVars, area, key, parent, nsig, fin, reports>>

ChildRequestLine(c) == ChildReads(c, ForkInputs)

ChildHeaders(c) ==
    /\ child[c].pc = "headers"
    /\ child' = [child EXCEPT ![c] = ReadHeader(@)]
    /\ UNCHANGED <<thrVars, area, key, parent, nsig, fin, reports>>

ChildHandleFileRequest(c) ==
    /\ child[c].pc = "handleFileRequest"
    /\ \E isStatistics \in StrcmpStatistics(child[c].requestURI) :
          child' = [child EXCEPT ![c] = HandleFileRequestFork(@, isStatistics)]
    /\ UNCHANGED <<thrVars, area, key, parent, nsig, fin, reports>>

\* sem_wait takes the semaphore
ChildSemWait(c) ==
    /\ child[c].pc \in SemSites
    /\ area.sem > 0
    /\ area' = [area EXCEPT !.sem = @ - 1]
    /\ child' = [child EXCEPT ![c].semres = 0, ![c].hold = TRUE,
                    ![c].site = child[c].pc,
                    ![c].pc = IF SemWaitLoops(0) THEN child[c].pc ELSE "load"]
    /\ UNCHANGED <<thrVars, key, parent, nsig, fin, reports>>

\* area->num_X += 1, the read
ChildLoad(c) ==
    /\ child[c].pc = "load"
    /\ child' = IF CounterOf(child[c]) = "none"
                THEN [child EXCEPT ![c].pc = "sem_post"]
                ELSE [child EXCEPT ![c].reg = area[CounterOf(child[c])],
                                   ![c].pc = "store"]
    /\ UNCHANGED <<thrVars, area, key, parent, nsig, fin, reports>>

\* area->num_X += 1, the write
ChildStore(c) ==
    /\ child[c].pc = "store"
    /\ area' = [area EXCEPT ![CounterOf(child[c])] = child[c].reg + 1]
    /\ child' = [child EXCEPT ![c].incs = @ + 1, ![c].reg = 0, ![c].pc = "sem_post"]
    /\ UNCHANGED <<thrVars, key, parent, nsig, fin, reports>>

\* a child that goes on to its response without sem_post
ChildSemPostKeeps(c) ==
    /\ child[c].pc = "sem_post"
    /\ child' = [child EXCEPT ![c].pc = AfterSemPost(child[c].site)]
    /\ UNCHANGED <<thrVars, area, key, parent, nsig, fin, reports>>

ChildSemPost(c) ==
    /\ child[c].pc = "sem_post"
    /\ area' = [area EXCEPT !.sem = @ + 1]
    /\ child' = [child EXCEPT ![c].hold = FALSE, ![c].semres = 0,
                              ![c].pc = AfterSemPost(child[c].site)]
    /\ UNCHANGED <<thrVars, key, parent, nsig, fin, reports>>

\* the rest of sendStatusLine: the status line, the HTML body of a non-200
\* status, Send
ChildSend(c) ==
    /\ child[c].pc = "Send"
    /\ LET buf == StatusBuf(child[c].statusCode)
       IN  \E res \in SendResults(Len(buf)) :
              child' = [child EXCEPT ![c] = [Send(@, buf, res) EXCEPT !.pc = child[c].ret]]
    /\ UNCHANGED <<thrVars, area, key, parent, nsig, fin, reports>>

\* showstatistics reads one counter for the page
ChildShowRead(c) ==
    /\ child[c].pc = "showstatistics"
    /\ Len(child[c].snap) < 4
    /\ child' = [child EXCEPT
                    ![c].snap = Append(@, area[SnapCounter(Len(@) + 1)])]
    /\ UNCHANGED <<thrVars, area, key, parent, nsig, fin, reports>>

\* showstatistics computes the sum, from the values read or from the counters
\* read again, and sends the page
ChildShowSend(c) ==
    /\ child[c].pc = "showstatistics"
    /\ Len(child[c].snap) = 4
    /\ \E reread \in BOOLEAN :
          LET sn  == child[c].snap
              sum == IF reread THEN CounterSum(area)
                     ELSE sn[1] + sn[2] + sn[3] + sn[4]
              buf == StatisticsBuf(child[c].statusCode, sn[1], sn[2], sn[3], sn[4], sum)
          IN  \E res \in SendResults(Len(buf)) :
                 child' = [child EXCEPT ![c] =
                              [Send(@, buf, res) EXCEPT !.snap = Append(sn, sum),
                                                        !.pc = "loop_end"]]
    /\ UNCHANGED <<thrVars, area, key, parent, nsig, fin, reports>>

\* list_directory: ls -al through a pipe, its output sent as it is
ChildListDirectory(c) ==
    /\ child[c].pc = "list_directory"
    /\ \E g \in LsGarbage :
          LET buf == LsOutput \o g
          IN  \E res \in SendResults(Len(buf)) :
                 child' = [child EXCEPT ![c] =
                              [Send(@, buf, res) EXCEPT !.fsAccess = @ + 1,
                                                        !.pc = "loop_end"]]
    /\ UNCHANGED <<thrVars, area, key, parent, nsig, fin, reports>>

ChildFread(c) ==
    /\ child[c].pc = "fread"
    /\ \E readFails \in BOOLEAN :
          \E res \in SendResults(Min(DISK_IO_BUF_SIZE,
                                     FileSize(child[c].file) - child[c].pos)) :
             child' = [child EXCEPT ![c] = ReadAndSendChunk(@, readFails, res)]
    /\ UNCHANGED <<thrVars, area, key, parent, nsig, fin, reports>>

\* the status class a final status is counted under
ClassOf(statusCode) ==
    LET startnum == statusCode \div 100
    IN  CASE startnum = 2 -> "two"
          [] startnum = 3 -> "three"
          [] startnum = 4 -> "four"
          [] startnum = 5 -> "five"
          [] OTHER -> "other"

\* loop_end: log line, fclose(clntFp), exit(0); the locals end with the process
ChildLoopEnd(c) ==
    /\ child[c].pc = "loop_end"
    /\ child' = [child EXCEPT ![c] = [NoConn EXCEPT !.pc = LogAndClose(child[c], "exit").pc,
                                                     !.clntSock = child[c].clntSock]]
    /\ fin' = [fin EXCEPT ![ClassOf(child[c].statusCode)] = @ + 1]
    /\ UNCHANGED <<thrVars, area, key, parent, nsig, reports>>

\* SIGUSR1 reaches a child (the handler is inherited, SA_RESTART is not set):
\* a blocked sem_wait returns -1, a blocked read of the socket fails
SignalChild(c) ==
    /\ nsig < MaxSignals
    /\ \/ child[c].pc \in SemSites /\ area.sem = 0
       \/ child[c].pc \in {"fgets", "headers"}
    /\ nsig' = nsig + 1
    /\ child' =
          IF child[c].pc \in SemSites /\ area.sem = 0
          THEN [child EXCEPT ![c].semres = -1, ![c].site = child[c].pc,
                   ![c].pc = IF SemWaitLoops(-1) THEN child[c].pc ELSE "load"]
          ELSE [child EXCEPT ![c] = InterruptedRead(@)]
    /\ UNCHANGED <<thrVars, area, key, parent, fin, reports>>

(* ------------------------------------------------------------------ *)
(* Fork server: specification                                           *)
(* ------------------------------------------------------------------ *)

\* after mmap, the counters set to 0 and sem_init(&area->sem, 1, 1)
AreaInit == [sem |-> 1, num_two |-> 0, num_three |-> 0, num_four |-> 0, num_five |-> 0]

\* naccepted counts the connections accept has returned, clntSock is the last
\* result of accept (the connections are numbered as they are accepted)
ParentInit == [pc |-> "accept", pid |-> 0, semres |-> 0, hold |-> FALSE,
               clntSock |-> 0, naccepted |-> 0]

FinInit == [two |-> 0, three |-> 0, four |-> 0, five |-> 0, other |-> 0]

InitFork ==
    /\ area = AreaInit
    /\ key = 0
    /\ parent = ParentInit
    /\ child = [c \in ChildIds |-> NoConn]
    /\ nsig = 0
    /\ fin = FinInit
    /\ reports = 0

\* the steps of a child after the request line
ChildResponds(c) ==
    \/ ChildHeaders(c)
    \/ ChildHandleFileRequest(c)
    \/ ChildSemWait(c)
    \/ ChildLoad(c)
    \/ ChildStore(c)
    \/ ChildSemPost(c)
    \/ ChildSend(c)
    \/ ChildShowRead(c)
    \/ ChildShowSend(c)
    \/ ChildListDirectory(c)
    \/ ChildFread(c)
    \/ ChildLoopEnd(c)

NextFork ==
    \/ ParentAccept
    \/ ParentAcceptFails
    \/ ParentFork
    \/ ParentForkFails
    \/ ParentWaitpid
    \/ ParentSemWait
    \/ ParentReport
    \/ ParentSemPost
    \/ SignalParent
    \/ \E c \in ChildIds : ChildRequestLine(c)
    \/ \E c \in ChildIds : ChildResponds(c)
    \/ \E c \in ChildIds : SignalChild(c)

(* ------------------------------------------------------------------ *)
(* Thread-pool server: the blocking queue (lines 607-704)               *)
(* ------------------------------------------------------------------ *)

\* the NULL struct message pointer
NoMsg == 0

\* the value of q.mutex when no thread holds it
Unlocked == -1

\* after queue_init
QueueInit == [mutex |-> Unlocked, first |-> NoMsg, last |-> NoMsg, length |-> 0]

\* malloc(sizeof(*pmsg)): a node not in use
Malloc == CHOOSE n \in 1..(MaxSock + 1) : n \notin DOMAIN msg

\* the messages from node n on, following next
RECURSIVE Chain(_, _)
Chain(m, n) == IF n = NoMsg \/ n \notin DOMAIN m THEN <<>>
               ELSE <<m[n].sock>> \o Chain(m, m[n].next)

\* a faulty queue_put that links the node before first: the queue as a stack
PutLinkFront(qu, m, pmsg) ==
    [q |-> [qu EXCEPT !.first = pmsg,
                      !.last = IF qu.length = 0 THEN pmsg ELSE @,
                      !.length = @ + 1],
     msg |-> [m EXCEPT ![pmsg].next = qu.first]]

\* a faulty queue_put without the else branch of line 670: first is set to
\* the new node whatever the length
PutLinkOverwrite(qu, m, pmsg) ==
    [q |-> [qu EXCEPT !.first = pmsg,
                      !.last = pmsg,
                      !.length = @ + 1],
     msg |-> m]

\* queue_put between pthread_mutex_lock and pthread_mutex_unlock
\* (lines 669-674): the node is linked after last
PutLink(qu, m, pmsg) ==
    [q |-> [qu EXCEPT !.first = IF qu.length = 0 THEN pmsg ELSE @,
                      !.last = pmsg,
                      !.length = @ + 1],
     msg |-> IF qu.length = 0 THEN m ELSE [m EXCEPT ![qu.last].next = pmsg]]

\* a faulty queue_get without the test of line 697: last keeps pointing at the
\* node that was removed
GetUnlinkKeepsLast(qu, m) ==
    [pmsg |-> qu.first,
     sock |-> m[qu.first].sock,
     q |-> [qu EXCEPT !.first = m[qu.first].next,
                      !.length = @ - 1]]

\* queue_get between the wait loop and pthread_mutex_unlock (lines 694-699):
\* the first node is unlinked
GetUnlink(qu, m) ==
    [pmsg |-> qu.first,
     sock |-> m[qu.first].sock,
     q |-> [qu EXCEPT !.first = m[qu.first].next,
                      !.last = IF qu.length = 1 THEN NoMsg ELSE @,
                      !.length = @ - 1]]

(* ------------------------------------------------------------------ *)
(* Thread-pool server: main (lines 1121-1145)                           *)
(* ------------------------------------------------------------------ *)

\* what the peers of the thread-pool server send before they close: nothing,
\* or a request for an empty file
ThreadInputs == { <<>>, Request(GET, <<"/","f","0">>, HTTP10) }

\* the threads of the thread-pool server run until die (lines 598-602) calls
\* exit(1): the thread that called it is at "die", the others are "exited"
\* (and "none" when this server was not started)
Running(pc) == pc \notin {"none", "die", "exited"}

\* a peer connects to one of the ports of the running server
ClientConnects(fd) ==
    /\ Running(acc.pc)
    /\ nsock < MaxSock
    /\ nsock' = nsock + 1
    /\ backlog' = [backlog EXCEPT ![fd] = Append(@, nsock + 1)]
    /\ UNCHANGED <<forkVars, q, msg, waiting, acc, thr, puts, gets, closes>>

\* select(nfds, &readfds, NULL, NULL, NULL) returns with the watched
\* descriptors below nfds that have a connection pending
MainSelect ==
    /\ acc.pc = "select"
    /\ LET ready == {fd \in acc.readfds : fd < nfds /\ fd \in DOMAIN backlog
                                          /\ backlog[fd] # <<>>}
       IN  /\ ready # {}
           /\ acc' = [acc EXCEPT !.readfds = ready, !.validfd = 1, !.pc = "for"]
    /\ UNCHANGED <<forkVars, q, msg, waiting, thr, backlog, nsock, puts, gets, closes>>

\* the loop over validfd up to the next descriptor set in readfds: accept on
\* it; after the last one readfds = prev_readfds
MainFor ==
    /\ acc.pc = "for"
    /\ LET set == {fd \in acc.validfd..nfds : fd \in acc.readfds}
       IN  IF set = {}
           THEN /\ acc' = [acc EXCEPT !.readfds = servSocks, !.accepted = <<>>,
                                      !.pc = "select"]
                /\ UNCHANGED backlog
           ELSE LET fd == CHOOSE f \in set : \A g \in set : f <= g
                IN  /\ fd \in DOMAIN backlog /\ backlog[fd] # <<>>
                    /\ acc' = [acc EXCEPT !.validfd = fd,
                                          !.clntSock = Head(backlog[fd]),
                                          !.accepted = Append(@, [fd |-> fd,
                                                      sock |-> Head(backlog[fd])]),
                                          !.pc = "queue_put"]
                    /\ backlog' = [backlog EXCEPT ![fd] = Tail(@)]
    /\ UNCHANGED <<forkVars, q, msg, waiting, thr, nsock, puts, gets, closes>>

\* an acceptor that ends only its own thread when accept fails
MainAcceptFailsAlone ==
    /\ acc.pc = "for"
    /\ LET set == {fd \in acc.validfd..nfds : fd \in acc.readfds}
       IN  /\ set # {}
           /\ acc' = [acc EXCEPT !.validfd = CHOOSE f \in set : \A g \in set : f <= g,
                                 !.clntSock = -1, !.pc = "die"]
    /\ UNCHANGED <<forkVars, q, msg, waiting, thr, backlog, nsock, puts, gets, closes>>

\* accept on a descriptor set in readfds returns -1: die("accept() failed")
\* (lines 1137-1139) ends the process
MainAcceptFails ==
    /\ acc.pc = "for"
    /\ LET set == {fd \in acc.validfd..nfds : fd \in acc.readfds}
       IN  /\ set # {}
           /\ acc' = [acc EXCEPT !.validfd = CHOOSE f \in set : \A g \in set : f <= g,
                                 !.clntSock = -1, !.pc = "die"]
    /\ thr' = [w \in WorkerIds |-> [thr[w] EXCEPT !.pc = "exited"]]
    /\ UNCHANGED <<forkVars, q, msg, waiting, backlog, nsock, puts, gets, closes>>

\* a queue_put that waits while the queue holds a connection (a queue of
\* capacity one)
MainPutLockBounded ==
    /\ acc.pc = "queue_put"
    /\ q.mutex = Unlocked
    /\ q.length < 1
    /\ LET pmsg == Malloc
       IN  /\ msg' = [n \in DOMAIN msg \cup {pmsg} |->
                         IF n = pmsg THEN [sock |-> acc.clntSock, next |-> NoMsg]
                         ELSE msg[n]]
           /\ acc' = [acc EXCEPT !.pmsg = pmsg, !.pc = "put_link"]
    /\ q' = [q EXCEPT !.mutex = MainThread]
    /\ UNCHANGED <<forkVars, waiting, thr, backlog, nsock, puts, gets, closes>>

\* queue_put: malloc of the node, pthread_mutex_lock
MainPutLock ==
    /\ acc.pc = "queue_put"
    /\ q.mutex = Unlocked
    /\ LET pmsg == Malloc
       IN  /\ msg' = [n \in DOMAIN msg \cup {pmsg} |->
                         IF n = pmsg THEN [sock |-> acc.clntSock, next |-> NoMsg]
                         ELSE msg[n]]
           /\ acc' = [acc EXCEPT !.pmsg = pmsg, !.pc = "put_link"]
    /\ q' = [q EXCEPT !.mutex = MainThread]
    /\ UNCHANGED <<forkVars, waiting, thr, backlog, nsock, puts, gets, closes>>

\* queue_put: the node linked, pthread_mutex_unlock
MainPutLink ==
    /\ acc.pc = "put_link"
    /\ LET l == PutLink(q, msg, acc.pmsg)
       IN  /\ q' = [l.q EXCEPT !.mutex = Unlocked]
           /\ msg' = l.msg
    /\ puts' = Append(puts, acc.clntSock)
    /\ acc' = [acc EXCEPT !.pc = "cond_signal"]
    /\ UNCHANGED <<forkVars, waiting, thr, backlog, nsock, gets, closes>>

\* a loop over validfd with the break of line 1141 in force: after the first
\* queue_put the acceptor goes back to select
MainPutSignalBreak ==
    /\ acc.pc = "cond_signal"
    /\ IF waiting = {}
       THEN UNCHANGED <<waiting, thr>>
       ELSE \E w \in waiting :
               /\ waiting' = waiting \ {w}
               /\ thr' = [thr EXCEPT ![w].pc = "relock"]
    /\ acc' = [acc EXCEPT !.readfds = servSocks, !.accepted = <<>>,
                          !.pmsg = NoMsg, !.clntSock = 0, !.pc = "select"]
    /\ UNCHANGED <<forkVars, q, msg, backlog, nsock, puts, gets, closes>>

\* a queue_put whose pthread_cond_signal wakes nobody
MainPutSignalLost ==
    /\ acc.pc = "cond_signal"
    /\ acc' = [acc EXCEPT !.validfd = @ + 1, !.pmsg = NoMsg, !.clntSock = 0,
                          !.pc = "for"]
    /\ UNCHANGED <<forkVars, q, msg, waiting, thr, backlog, nsock, puts, gets, closes>>

\* queue_put: pthread_cond_signal wakes one thread asleep on the condition,
\* if there is one; the loop over validfd goes on
MainPutSignal ==
    /\ acc.pc = "cond_signal"
    /\ IF waiting = {}
       THEN UNCHANGED <<waiting, thr>>
       ELSE \E w \in waiting :
               /\ waiting' = waiting \ {w}
               /\ thr' = [thr EXCEPT ![w].pc = "relock"]
    /\ acc' = [acc EXCEPT !.validfd = @ + 1, !.pmsg = NoMsg, !.clntSock = 0,
                          !.pc = "for"]
    /\ UNCHANGED <<forkVars, q, msg, backlog, nsock, puts, gets, closes>>

(* ------------------------------------------------------------------ *)
(* Thread-pool server: a worker (thr_worker, lines 928-1054)            *)
(* ------------------------------------------------------------------ *)

\* queue_get: pthread_mutex_lock
WorkerGetLock(w) ==
    /\ thr[w].pc = "queue_get"
    /\ q.mutex = Unlocked
    /\ q' = [q EXCEPT !.mutex = w]
    /\ thr' = [thr EXCEPT ![w].pc = "get_wait"]
    /\ UNCHANGED <<forkVars, msg, waiting, acc, backlog, nsock, puts, gets, closes>>

\* queue_get: while (q->length == 0) pthread_cond_wait releases the mutex and
\* sleeps; otherwise the first node is unlinked, the mutex released, the
\* node freed and its socket returned
WorkerGetWait(w) ==
    /\ thr[w].pc = "get_wait"
    /\ IF q.length = 0
       THEN /\ q' = [q EXCEPT !.mutex = Unlocked]
            /\ waiting' = waiting \cup {w}
            /\ thr' = [thr EXCEPT ![w].pc = "cond_wait"]
            /\ UNCHANGED <<msg, gets>>
       ELSE LET u == GetUnlink(q, msg)
            IN  /\ q' = [u.q EXCEPT !.mutex = Unlocked]
                /\ msg' = [n \in DOMAIN msg \ {u.pmsg} |-> msg[n]]
                /\ gets' = Append(gets, u.sock)
                /\ thr' = [thr EXCEPT ![w].clntSock = u.sock,
                                      ![w].pc = "getsockname"]
                /\ UNCHANGED waiting
    /\ UNCHANGED <<forkVars, acc, backlog, nsock, puts, closes>>

\* pthread_cond_wait returns without a signal (a spurious wake-up)
WorkerSpuriousWake(w) ==
    /\ thr[w].pc = "cond_wait"
    /\ w \in waiting
    /\ waiting' = waiting \ {w}
    /\ thr' = [thr EXCEPT ![w].pc = "relock"]
    /\ UNCHANGED <<forkVars, q, msg, acc, backlog, nsock, puts, gets, closes>>

\* pthread_cond_wait takes the mutex again before it returns
WorkerRelock(w) ==
    /\ thr[w].pc = "relock"
    /\ q.mutex = Unlocked
    /\ q' = [q EXCEPT !.mutex = w]
    /\ thr' = [thr EXCEPT ![w].pc = "get_wait"]
    /\ UNCHANGED <<forkVars, msg, waiting, acc, backlog, nsock, puts, gets, closes>>

\* a worker that ends only its own thread when getsockname or fdopen fails
WorkerOpenFailsAlone(w) ==
    /\ thr[w].pc = "getsockname"
    /\ thr' = [thr EXCEPT ![w].pc = "die"]
    /\ UNCHANGED <<forkVars, q, msg, waiting, acc, backlog, nsock, puts, gets, closes>>

\* getsockname or fdopen fails on the socket popped: die("getsockname failed")
\* or die("fdopen failed") (lines 938-945) ends the process
WorkerOpenFails(w) ==
    /\ thr[w].pc = "getsockname"
    /\ thr' = [v \in WorkerIds |->
                 [thr[v] EXCEPT !.pc = IF v = w THEN "die" ELSE "exited"]]
    /\ acc' = [acc EXCEPT !.pc = "exited"]
    /\ UNCHANGED <<forkVars, q, msg, waiting, backlog, nsock, puts, gets, closes>>

\* getsockname and fdopen on the socket popped; the request line is next
WorkerOpen(w) ==
    /\ thr[w].pc = "getsockname"
    /\ thr' = [thr EXCEPT ![w] = [NewConn EXCEPT !.clntSock = thr[w].clntSock]]
    /\ UNCHANGED <<forkVars, q, msg, waiting, acc, backlog, nsock, puts, gets, closes>>

\* the request line, read from a peer that sends one of the streams of inputs
WorkerReads(w, inputs) ==
    /\ thr[w].pc = "fgets"
    /\ \E inp \in inputs :
          thr' = [thr EXCEPT ![w] = ReadRequestLine([@ EXCEPT !.inp = inp])]
    /\ UNCHANGED <<forkVars, q, msg, waiting, acc, backlog, nsock, puts, gets, closes>>

WorkerRequestLine(w) == WorkerReads(w, ThreadInputs)

WorkerHeaders(w) ==
    /\ thr[w].pc = "headers"
    /\ thr' = [thr EXCEPT ![w] = ReadHeader(@)]
    /\ UNCHANGED <<forkVars, q, msg, waiting, acc, backlog, nsock, puts, gets, closes>>

\* handleFileRequest of the thread-pool server up to its sendStatusLine
HandleFileRequestThread(r) ==
    LET file == FilePath(r.requestURI)
    IN  IF IsDirectory(file)
        THEN [r EXCEPT !.file = file, !.fsAccess = @ + 1, !.statusCode = 403,
                       !.pc = "sendStatusLine", !.ret = "loop_end"]
        ELSE IF ~CanOpen(file)
        THEN [r EXCEPT !.file = file, !.fsAccess = @ + 2, !.statusCode = 404,
                       !.pc = "sendStatusLine", !.ret = "loop_end"]
        ELSE [r EXCEPT !.file = file, !.fsAccess = @ + 2, !.fp = "open",
                       !.statusCode = 200,
                       !.pc = "sendStatusLine", !.ret = "fread"]

WorkerHandleFileRequest(w) ==
    /\ thr[w].pc = "handleFileRequest"
    /\ thr' = [thr EXCEPT ![w] = HandleFileRequestThread(@)]
    /\ UNCHANGED <<forkVars, q, msg, waiting, acc, backlog, nsock, puts, gets, closes>>

\* sendStatusLine of the thread-pool server (lines 798-826)
WorkerSendStatusLine(w) ==
    /\ thr[w].pc = "sendStatusLine"
    /\ LET buf == StatusBuf(thr[w].statusCode)
       IN  \E res \in SendResults(Len(buf)) :
              thr' = [thr EXCEPT ![w] = [Send(@, buf, res) EXCEPT !.pc = thr[w].ret]]
    /\ UNCHANGED <<forkVars, q, msg, waiting, acc, backlog, nsock, puts, gets, closes>>

WorkerFread(w) ==
    /\ thr[w].pc = "fread"
    /\ \E readFails \in BOOLEAN :
          \E res \in SendResults(Min(DISK_IO_BUF_SIZE,
                                     FileSize(thr[w].file) - thr[w].pos)) :
             thr' = [thr EXCEPT ![w] = ReadAndSendChunk(@, readFails, res)]
    /\ UNCHANGED <<forkVars, q, msg, waiting, acc, backlog, nsock, puts, gets, closes>>

\* a worker that goes back to queue_get without fclose(clntFp)
WorkerLoopEndKeepsOpen(w) ==
    /\ thr[w].pc = "loop_end"
    /\ thr' = [thr EXCEPT ![w] = [NoConn EXCEPT !.pc = LogAndClose(thr[w], "queue_get").pc]]
    /\ UNCHANGED <<forkVars, q, msg, waiting, acc, backlog, nsock, puts, gets, closes>>

\* loop_end: log line, fclose(clntFp), back to queue_get
WorkerLoopEnd(w) ==
    /\ thr[w].pc = "loop_end"
    /\ closes' = [closes EXCEPT ![thr[w].clntSock] = @ + 1]
    /\ thr' = [thr EXCEPT ![w] = [NoConn EXCEPT !.pc = LogAndClose(thr[w], "queue_get").pc]]
    /\ UNCHANGED <<forkVars, q, msg, waiting, acc, backlog, nsock, puts, gets>>

(* ------------------------------------------------------------------ *)
(* Thread-pool server: specification                                    *)
(* ------------------------------------------------------------------ *)

\* accepted lists, for the current pass of the loop over validfd, the
\* descriptors accept was called on and the sockets it returned
AccInit == [pc |-> "select", readfds |-> servSocks, validfd |-> 0, clntSock |-> 0,
            pmsg |-> NoMsg, accepted |-> <<>>]

\* the workers have been created and are about to call queue_get
InitThread ==
    /\ q = QueueInit
    /\ msg = << >>
    /\ waiting = {}
    /\ acc = AccInit
    /\ thr = [w \in WorkerIds |-> [NoConn EXCEPT !.pc = "queue_get"]]
    /\ backlog = [fd \in servSocks |-> <<>>]
    /\ nsock = 0
    /\ puts = <<>>
    /\ gets = <<>>
    /\ closes = [s \in SockIds |-> 0]

\* the steps of a worker in queue_get and up to the request line
WorkerGets(w) ==
    \/ WorkerGetLock(w)
    \/ WorkerGetWait(w)
    \/ WorkerSpuriousWake(w)
    \/ WorkerRelock(w)
    \/ WorkerOpen(w)

\* the steps of a worker after the request line
WorkerResponds(w) ==
    \/ WorkerHeaders(w)
    \/ WorkerHandleFileRequest(w)
    \/ WorkerSendStatusLine(w)
    \/ WorkerFread(w)
    \/ WorkerLoopEnd(w)

NextThread ==
    \/ \E fd \in servSocks : ClientConnects(fd)
    \/ MainSelect
    \/ MainFor
    \/ MainPutLock
    \/ MainPutLink
    \/ MainPutSignal
    \/ \E w \in WorkerIds : WorkerGets(w)
    \/ \E w \in WorkerIds : WorkerRequestLine(w)
    \/ \E w \in WorkerIds : WorkerResponds(w)

Init == InitFork /\ InitThread

SpecFork == Init /\ [][NextFork]_vars

SpecThread == Init /\ [][NextThread]_vars

(* ------------------------------------------------------------------ *)
(* Thread-pool server: the queue between main and the workers, with a   *)
(* worker's request lifecycle taken as one step                         *)
(* ------------------------------------------------------------------ *)

\* the request lifecycle of a worker from the request line to fclose
\* (lines 955-1054) in one step: it reads and writes the locals of the
\* worker and its own socket, nothing the other threads share
WorkerServes(w) ==
    /\ thr[w].pc = "fgets"
    /\ closes' = [closes EXCEPT ![thr[w].clntSock] = @ + 1]
    /\ thr' = [thr EXCEPT ![w] = [NoConn EXCEPT !.pc = "queue_get"]]
    /\ UNCHANGED <<forkVars, q, msg, waiting, acc, backlog, nsock, puts, gets>>

NextQueue ==
    \/ \E fd \in servSocks : ClientConnects(fd)
    \/ MainSelect
    \/ MainFor
    \/ MainPutLock
    \/ MainPutLink
    \/ MainPutSignal
    \/ \E w \in WorkerIds : WorkerGets(w)
    \/ \E w \in WorkerIds : WorkerServes(w)

SpecQueue == Init /\ [][NextQueue]_vars

(* ------------------------------------------------------------------ *)
(* One request at a time: the request lifecycle of either server on     *)
(* every request of ReqInputs                                           *)
(* ------------------------------------------------------------------ *)

ReqMethods == {GET, POST, <<"g","e","t">>}

ReqVersions == {HTTP10, HTTP11, HTTP20}

\* a URI of n characters: "/" and n - 1 times "a", ending with tail
LongURI(n, tail) == <<"/">> \o [i \in 1..(n - 1 - Len(tail)) |-> "a"] \o tail

ReqURIs ==
    { <<"/">>, <<"/","f","0">>, <<"/","f","1">>, <<"/","f","2">>, <<"/","f","3">>,
      <<"/","f","4">>, <<"/","f","5">>, <<"/","f","6">>,
      <<"/","d">>, <<"/","d","/">>, <<"/","x">>,
      URI_statistics, URI_statistics \o <<"x">>,
      <<"/",".",".">>, <<"/",".",".","/","f","1">>, <<"/","d","/",".",".">>,
      <<"/","d","/",".",".","/","f","1">>, <<"f","1">>, <<"/",".",".","f">>,
      <<"d","/",".",".","/","f","1">>, <<".",".">>, <<"/",".">> }

ReqSeps == { <<" ">>, <<"\t">>, <<" ", " ">> }

ReqEols == { CRLF, <<"\n">>, <<>> }

\* what follows the request line: the blank line, a header and the blank
\* line, a header and end of file, end of file
ReqTails == { CRLF, <<"\n">>, HostHeader \o CRLF, HostHeader, <<>> }

ReqInputs ==
    { Request(m, u, v) : m \in ReqMethods, u \in ReqURIs, v \in ReqVersions }
    \cup { RequestLine(GET, u, HTTP10, sep, eol) \o t :
             u \in { <<"/">>, <<"/","f","1">>, <<"/","d","/",".",".">>, <<"/","x">> },
             sep \in ReqSeps, eol \in ReqEols, t \in ReqTails }
    \cup { <<>>, CRLF, GET \o CRLF, GET \o <<" ", "/">> \o CRLF,
           <<" ">> \o Request(GET, <<"/","f","1">>, HTTP10),
           RequestLine(GET, <<"/","f","1">>, HTTP10 \o <<" ", "x">>, <<" ">>, CRLF) \o CRLF,
           Request(GET, LongURI(LineBufSize - 14, <<>>), HTTP10),
           Request(GET, LongURI(LineBufSize, <<>>), HTTP10),
           Request(GET, LongURI(LineBufSize, <<"/",".",".","/","f","1">>), HTTP10),
           Request(POST, LongURI(LineBufSize, <<"/",".",".">>), HTTP10) }

\* the fork server with one child that is about to read its request line,
\* after earlier connections that left the counters at two and four; or the
\* thread-pool server with worker 1 about to read the request line of the
\* socket it popped
InitReq ==
    \/ /\ InitThread
       /\ \E two \in 0..MaxCount, four \in 0..MaxCount :
             /\ area = [AreaInit EXCEPT !.num_two = two, !.num_four = four]
             /\ fin = [FinInit EXCEPT !.two = two, !.four = four]
       /\ key = 0
       /\ parent = [ParentInit EXCEPT !.pid = 1, !.clntSock = 1, !.naccepted = 1]
       /\ child = [c \in ChildIds |->
                     IF c = 1 THEN [NewConn EXCEPT !.clntSock = 1] ELSE NoConn]
       /\ nsig = 0
       /\ reports = 0
    \/ /\ InitFork
       /\ q = QueueInit
       /\ msg = << >>
       /\ waiting = WorkerIds \ {1}
       /\ acc = AccInit
       /\ thr = [w \in WorkerIds |->
                   IF w = 1 THEN [NewConn EXCEPT !.clntSock = 1]
                   ELSE [NoConn EXCEPT !.pc = "cond_wait"]]
       /\ backlog = [fd \in servSocks |-> <<>>]
       /\ nsock = 1
       /\ puts = <<1>>
       /\ gets = <<1>>
       /\ closes = [s \in SockIds |-> 0]

ReqChildReads == \E c \in ChildIds : ChildReads(c, ReqInputs)

ReqWorkerReads == \E w \in WorkerIds : WorkerReads(w, ReqInputs)

NextReq ==
    \/ ReqChildReads
    \/ \E c \in ChildIds : ChildResponds(c)
    \/ ReqWorkerReads
    \/ \E w \in WorkerIds : WorkerResponds(w)

SpecReq == InitReq /\ [][NextReq]_vars

(* ------------------------------------------------------------------ *)
(* Fork server: the parent's loop, with a child's request lifecycle     *)
(* taken as one step                                                    *)
(* ------------------------------------------------------------------ *)

\* the lifecycle of a child from the request line to exit (lines 445-558) in
\* one step, for the streams of ForkInputs: a peer that sends nothing is
\* logged with 400 and not counted, each of the requests is counted under
\* num_two between sem_wait and sem_post
ChildServes(c) ==
    /\ child[c].pc = "fgets"
    /\ \E counted \in BOOLEAN :
          /\ counted => area.sem > 0
          /\ area' = IF counted THEN [area EXCEPT !.num_two = @ + 1] ELSE area
          /\ fin' = IF counted THEN [fin EXCEPT !.two = @ + 1]
                               ELSE [fin EXCEPT !.four = @ + 1]
    /\ child' = [child EXCEPT ![c] = [NoConn EXCEPT !.pc = "exit",
                                                     !.clntSock = child[c].clntSock]]
    /\ UNCHANGED <<thrVars, key, parent, nsig, reports>>

\* the steps of the parent that need nothing from outside the process
ParentProceeds ==
    \/ ParentFork
    \/ ParentWaitpid
    \/ ParentSemWait
    \/ ParentReport
    \/ ParentSemPost

NextParent ==
    \/ ParentAccept
    \/ ParentAcceptFails
    \/ ParentForkFails
    \/ ParentProceeds
    \/ SignalParent
    \/ \E c \in ChildIds : ChildServes(c)

SpecParent == Init /\ [][NextParent]_vars

\* the parent is scheduled whenever it can run and every child runs to its
\* exit; peers need not connect and signals need not arrive
SpecParentFair ==
    /\ Init /\ [][NextParent]_vars
    /\ WF_vars(ParentProceeds)
    /\ \A c \in ChildIds : WF_vars(ChildServes(c))

\* the acceptor is scheduled whenever it can run, a thread that keeps asking
\* for the mutex gets it, and a worker that holds the mutex goes on to
\* release it; workers need not take connections, peers need not connect
SpecQueueFair ==
    /\ Init /\ [][NextQueue]_vars
    /\ WF_vars(MainSelect) /\ WF_vars(MainFor)
    /\ SF_vars(MainPutLock) /\ WF_vars(MainPutLink) /\ WF_vars(MainPutSignal)
    /\ \A w \in WorkerIds : WF_vars(WorkerGetWait(w))

\* the acceptor and every worker are scheduled whenever they can run, a
\* thread that keeps asking for the mutex gets it, and a worker serves the
\* connection it holds to the end; peers need not connect and
\* pthread_cond_wait need not return without a signal
SpecWorkersFair ==
    /\ Init /\ [][NextQueue]_vars
    /\ WF_vars(MainSelect \/ MainFor \/ MainPutLink \/ MainPutSignal)
    /\ SF_vars(MainPutLock)
    /\ \A w \in WorkerIds :
          /\ SF_vars(WorkerGetLock(w) \/ WorkerRelock(w))
          /\ WF_vars(WorkerGetWait(w) \/ WorkerOpen(w) \/ WorkerServes(w))

(* ------------------------------------------------------------------ *)
(* Thread-pool server: select returning 0 (lines 1131-1134)             *)
(* ------------------------------------------------------------------ *)

\* select returns 0, the case of the loop while (servs == 0): no descriptor
\* is ready and select has cleared readfds; the loop calls select again with
\* the same readfds (readfds = prev_readfds is at line 1144, after the loop
\* over validfd)
MainSelectZero ==
    /\ acc.pc = "select"
    /\ \A fd \in acc.readfds : fd < nfds => backlog[fd] = <<>>
    /\ acc' = [acc EXCEPT !.readfds = {}]
    /\ UNCHANGED <<forkVars, q, msg, waiting, thr, backlog, nsock, puts, gets, closes>>

\* the fairness of SpecQueueFair; select need not return 0
SpecSelectFair ==
    /\ Init /\ [][NextQueue \/ MainSelectZero]_vars
    /\ WF_vars(MainSelect) /\ WF_vars(MainFor)
    /\ SF_vars(MainPutLock) /\ WF_vars(MainPutLink) /\ WF_vars(MainPutSignal)
    /\ \A w \in WorkerIds : WF_vars(WorkerGetWait(w))

(* ------------------------------------------------------------------ *)
(* Thread-pool server: queue_destroy (lines 638-656)                    *)
(* ------------------------------------------------------------------ *)

\* the value of q.mutex after pthread_mutex_destroy
Destroyed == -2

\* the loop while (q->length != 0) of queue_destroy: first moves to the next
\* node, length is decremented, the node is freed; msg->sock is not touched
RECURSIVE queue_destroy(_, _)
queue_destroy(qu, m) ==
    IF qu.length = 0
    THEN [q |-> qu, msg |-> m]
    ELSE queue_destroy([qu EXCEPT !.first = m[qu.first].next, !.length = @ - 1],
                       [n \in DOMAIN m \ {qu.first} |-> m[n]])

\* main calls queue_destroy(&q) at line 1146, after its endless loop; here
\* the call is made from the top of the loop, as it would be if the loop had
\* a way to end: pthread_mutex_lock
MainDestroyLock ==
    /\ acc.pc = "select"
    /\ q.mutex = Unlocked
    /\ q' = [q EXCEPT !.mutex = MainThread]
    /\ acc' = [acc EXCEPT !.pc = "queue_destroy"]
    /\ UNCHANGED <<forkVars, msg, waiting, thr, backlog, nsock, puts, gets, closes>>

\* queue_destroy: the loop, last = NULL, pthread_mutex_unlock, then the
\* mutex and the condition are destroyed; destroying a condition on which
\* workers sleep is undefined: the call returns 0 or fails and die ends the
\* process
MainDestroy ==
    /\ acc.pc = "queue_destroy"
    /\ LET d == queue_destroy(q, msg)
       IN  /\ q' = [d.q EXCEPT !.last = NoMsg, !.mutex = Destroyed]
           /\ msg' = d.msg
    /\ \E ok \in (IF waiting = {} THEN {TRUE} ELSE BOOLEAN) :
          IF ok
          THEN acc' = [acc EXCEPT !.pc = "destroyed"] /\ UNCHANGED thr
          ELSE /\ acc' = [acc EXCEPT !.pc = "die"]
               /\ thr' = [w \in WorkerIds |-> [thr[w] EXCEPT !.pc = "exited"]]
    /\ UNCHANGED <<forkVars, waiting, backlog, nsock, puts, gets, closes>>

SpecDestroy == Init /\ [][NextQueue \/ MainDestroyLock \/ MainDestroy]_vars

(* ------------------------------------------------------------------ *)
(* Either server, with the system calls of its accept path failing      *)
(* ------------------------------------------------------------------ *)

\* the queue, the acceptor and the workers with accept, getsockname and
\* fdopen able to fail
NextPool ==
    \/ NextQueue
    \/ MainAcceptFails
    \/ \E w \in WorkerIds : WorkerOpenFails(w)

\* one of the two programs is started; the other has no process
InitServers ==
    \/ /\ InitFork
       /\ InitThread!1 /\ InitThread!2 /\ InitThread!3
       /\ acc = [AccInit EXCEPT !.pc = "none"]
       /\ thr = [w \in WorkerIds |-> NoConn]
       /\ InitThread!6 /\ InitThread!7 /\ InitThread!8 /\ InitThread!9
       /\ InitThread!10
    \/ /\ InitThread
       /\ InitFork!1 /\ InitFork!2
       /\ parent = [ParentInit EXCEPT !.pc = "none"]
       /\ InitFork!4 /\ InitFork!5 /\ InitFork!6 /\ InitFork!7

SpecServers == InitServers /\ [][NextParent \/ NextPool]_vars

(* ------------------------------------------------------------------ *)
(* Properties of the fork server's statistics                           *)
(* ------------------------------------------------------------------ *)

\* C1: once the connections accepted so far have all reached the end of
\* their lifecycle, each counter equals the number of them whose final status
\* has the matching hundreds digit, and the counters add up to their number
C1_StatisticsInvariant ==
    Live = {} =>
        /\ area.num_two = fin.two
        /\ area.num_three = fin.three
        /\ area.num_four = fin.four
        /\ area.num_five = fin.five
        /\ CounterSum(area) = fin.two + fin.three + fin.four + fin.five + fin.other

\* the processes between their sem_wait and their sem_post
InSection ==
    {c \in ChildIds : child[c].pc \in {"load", "store", "sem_post"}}
        \cup (IF parent.pc \in {"fprintf", "sem_post"} THEN {0} ELSE {})

\* C4: no two processes are between sem_wait and sem_post on area->sem at
\* the same time, and the value of the semaphore never exceeds 1
C4_MutualExclusion ==
    /\ Cardinality(InSection) <= 1
    /\ area.sem <= 1

\* the children that have read the first counter of a statistics page and not
\* yet the last
Rendering ==
    {c \in ChildIds : child[c].pc = "showstatistics" /\ Len(child[c].snap) \in 1..3}

\* C5: no counter changes between the first and the last counter read of a
\* statistics page, and the Sum of a page is the sum of its four counters
C5_SnapshotConsistency ==
    /\ [][Rendering # {} =>
            /\ area'.num_two = area.num_two
            /\ area'.num_three = area.num_three
            /\ area'.num_four = area.num_four
            /\ area'.num_five = area.num_five]_vars
    /\ [](\A c \in ChildIds :
            Len(child[c].snap) = 5 =>
               child[c].snap[5] = child[c].snap[1] + child[c].snap[2]
                                    + child[c].snap[3] + child[c].snap[4])

(* ------------------------------------------------------------------ *)
(* Properties of the connection queue                                   *)
(* ------------------------------------------------------------------ *)

\* C2: the k-th socket queue_get removes is the k-th socket queue_put linked
C2_FIFO ==
    /\ Len(gets) <= Len(puts)
    /\ \A k \in 1..Len(gets) : gets[k] = puts[k]

\* two sockets have been removed, in the order they were put, by two workers
\* that handle them at the same time, and the second put was not the second
\* connection to arrive
C2_Witness ==
    /\ Len(gets) >= 2
    /\ puts[1] > puts[2]
    /\ \A w \in WorkerIds : thr[w].pc = "fgets"

\* how often s occurs in the sequence
Count(seq, s) == Cardinality({i \in 1..Len(seq) : seq[i] = s})

\* C3: a socket given to queue_put is in the queue or has been returned by
\* one queue_get, never by two, and no worker holds a socket another holds
C3_ExactlyOnce ==
    /\ Len(Chain(msg, q.first)) = q.length
    /\ \A s \in SockIds :
          /\ Count(puts, s) = Count(gets, s) + Count(Chain(msg, q.first), s)
          /\ Count(gets, s) <= 1
          /\ Cardinality({w \in WorkerIds : thr[w].clntSock = s}) + closes[s]
                = Count(gets, s)

\* two sockets wait in the queue while both workers are in queue_get
C3_Witness ==
    /\ q.length >= 2
    /\ \A w \in WorkerIds : thr[w].pc \in {"queue_get", "get_wait", "cond_wait", "relock"}

(* ------------------------------------------------------------------ *)
(* Properties of one request's lifecycle                                *)
(* ------------------------------------------------------------------ *)

\* the lifecycles of the children and of the workers
Handlers == {child[c] : c \in ChildIds} \cup {thr[w] : w \in WorkerIds}

\* the lifecycles that have reached loop_end and not yet closed the socket
Ended == {r \in Handlers : r.pc = "loop_end"}

\* the lifecycles that have read a request line
HasLine(r) == r.requestLine # <<>> /\ r.requestLine # NULL

Whitespace == {" ", "\t", "\r", "\n"}

\* the positions where a whitespace-separated word of the line starts (ends)
WordStarts(line) ==
    {i \in 1..Len(line) :
        line[i] \notin Whitespace /\ (i = 1 \/ line[i - 1] \in Whitespace)}

WordEnds(line) ==
    {i \in 1..Len(line) :
        line[i] \notin Whitespace /\ (i = Len(line) \/ line[i + 1] \in Whitespace)}

\* the k-th smallest element of a set of numbers
Kth(S, k) == CHOOSE x \in S : Cardinality({y \in S : y < x}) = k - 1

\* the whitespace-separated words of the line
Words(line) ==
    [k \in 1..Cardinality(WordStarts(line)) |->
        SubSeq(line, Kth(WordStarts(line), k), Kth(WordEnds(line), k))]

\* three words, the first GET, the third HTTP/1.0 or HTTP/1.1
IsGetLine(w) ==
    /\ Len(w) = 3
    /\ w[1] = <<"G", "E", "T">>
    /\ w[3] \in { <<"H", "T", "T", "P", "/", "1", ".", "0">>, <<"H", "T", "T", "P", "/", "1", ".", "1">> }

\* the URI contains "/../" or ends with "/.."
DotDotURI(u) ==
    \/ \E i \in 1..(Len(u) - 3) : <<u[i], u[i + 1], u[i + 2], u[i + 3]>> = <<"/", ".", ".", "/">>
    \/ Len(u) >= 3 /\ <<u[Len(u) - 2], u[Len(u) - 1], u[Len(u)]>> = <<"/", ".", ".">>

\* the lifecycle ended because fgets returned NULL: on the request line, or
\* in the loop that skips the headers
EndedByEOF(r) == r.requestLine = NULL \/ (r.statusCode = 400 /\ r.nhdr > 0)

\* C6: a GET /statistics that is served after fin.two requests ended with a
\* 2XX status and fin.four with a 4XX status, none in flight, is answered with
\* status 200 and a page that reports these two numbers
C6_StatisticsPage ==
    \A c \in ChildIds :
        LET r == child[c]
        IN  (/\ r.pc = "loop_end"
             /\ HasLine(r) /\ IsGetLine(Words(r.requestLine))
             /\ Words(r.requestLine)[2] = <<"/", "s", "t", "a", "t", "i", "s", "t", "i", "c", "s">>
             /\ ~EndedByEOF(r)
             /\ r.out = r.tx) =>
                /\ r.statusCode = 200
                /\ strstr(r.out, <<"N", "u", "m", "b", "e", "r", " ", "o", "f", " ", "2", "X", "X", " ", ":", " ">> \o Itoa(fin.two) \o <<" ", "\n">>)
                /\ strstr(r.out, <<"N", "u", "m", "b", "e", "r", " ", "o", "f", " ", "4", "X", "X", " ", ":", " ">> \o Itoa(fin.four) \o <<" ", "\n">>)

\* the response to an error status: status line, blank line, HTML body
ErrorResponse(statusCode) ==
    CASE statusCode = 400 ->
           <<"H", "T", "T", "P", "/", "1", ".", "0", " ", "4", "0", "0", " ", "B", "a", "d", " ", "R", "e", "q", "u", "e", "s", "t", "\r", "\n", "\r", "\n", "<", "h", "t", "m", "l", ">", "<", "b", "o", "d", "y", ">", "\n", "<", "h", "1", ">", "4", "0", "0", " ", "B", "a", "d", " ", "R", "e", "q", "u", "e", "s", "t", "<", "/", "h", "1", ">", "\n", "<", "/", "b", "o", "d", "y", ">", "<", "/", "h", "t", "m", "l", ">", "\n">>
      [] statusCode = 403 ->
           <<"H", "T", "T", "P", "/", "1", ".", "0", " ", "4", "0", "3", " ", "F", "o", "r", "b", "i", "d", "d", "e", "n", "\r", "\n", "\r", "\n", "<", "h", "t", "m", "l", ">", "<", "b", "o", "d", "y", ">", "\n", "<", "h", "1", ">", "4", "0", "3", " ", "F", "o", "r", "b", "i", "d", "d", "e", "n", "<", "/", "h", "1", ">", "\n", "<", "/", "b", "o", "d", "y", ">", "<", "/", "h", "t", "m", "l", ">", "\n">>
      [] statusCode = 404 ->
           <<"H", "T", "T", "P", "/", "1", ".", "0", " ", "4", "0", "4", " ", "N", "o", "t", " ", "F", "o", "u", "n", "d", "\r", "\n", "\r", "\n", "<", "h", "t", "m", "l", ">", "<", "b", "o", "d", "y", ">", "\n", "<", "h", "1", ">", "4", "0", "4", " ", "N", "o", "t", " ", "F", "o", "u", "n", "d", "<", "/", "h", "1", ">", "\n", "<", "/", "b", "o", "d", "y", ">", "<", "/", "h", "t", "m", "l", ">", "\n">>
      [] statusCode = 501 ->
           <<"H", "T", "T", "P", "/", "1", ".", "0", " ", "5", "0", "1", " ", "N", "o", "t", " ", "I", "m", "p", "l", "e", "m", "e", "n", "t", "e", "d", "\r", "\n", "\r", "\n", "<", "h", "t", "m", "l", ">", "<", "b", "o", "d", "y", ">", "\n", "<", "h", "1", ">", "5", "0", "1", " ", "N", "o", "t", " ", "I", "m", "p", "l", "e", "m", "e", "n", "t", "e", "d", "<", "/", "h", "1", ">", "\n", "<", "/", "b", "o", "d", "y", ">", "<", "/", "h", "t", "m", "l", ">", "\n">>

\* C7 as stated: a lifecycle that ends with status 400, 403, 404 or 501 has
\* handed the status line and the HTML body to Send before the socket is
\* closed, also when the status is 400 because of end of file
C7_ErrorResponseAlways ==
    \A r \in Ended :
        r.statusCode \in {400, 403, 404, 501} =>
            r.nsend = 1 /\ r.tx = ErrorResponse(r.statusCode)

\* C7: a lifecycle that ends with status 400, 403, 404 or 501 set by a check
\* on the request line or by handleFileRequest has handed the status line and
\* the HTML body to Send, once; a lifecycle that ends with status 400 because
\* fgets returned NULL has handed nothing to Send
C7_ErrorResponse ==
    \A r \in Ended :
        r.statusCode \in {400, 403, 404, 501} =>
            IF EndedByEOF(r)
            THEN r.nsend = 0 /\ r.tx = <<>>
            ELSE r.nsend = 1 /\ r.tx = ErrorResponse(r.statusCode)

\* a worker is about to close a socket that was answered with 403
C7_Witness ==
    \E w \in WorkerIds :
        /\ thr[w].pc = "loop_end"
        /\ thr[w].statusCode = 403
        /\ thr[w].out = ErrorResponse(403)

\* C8 as stated: a request whose URI contains "/../" or ends with "/.." ends
\* with status 400 whatever its method and version, and touches no file
C8_DotDotAlways400 ==
    \A r \in Handlers :
        (HasLine(r) /\ Len(Words(r.requestLine)) >= 2
                    /\ DotDotURI(Words(r.requestLine)[2])) =>
            r.statusCode = 400 /\ r.fsAccess = 0

\* C8: a request line that was read and whose URI contains "/../" or ends
\* with "/.." ends with status 400 when it has three words, GET first and
\* HTTP/1.0 or HTTP/1.1 last, and with status 501 otherwise; in both cases at
\* the request line: no header is read and no file touched
C8_DotDot400 ==
    \A r \in Handlers :
        (HasLine(r) /\ Len(Words(r.requestLine)) >= 2
                    /\ DotDotURI(Words(r.requestLine)[2])) =>
            /\ r.statusCode = IF IsGetLine(Words(r.requestLine)) THEN 400 ELSE 501
            /\ r.fsAccess = 0
            /\ r.nhdr = 0
            /\ r.file = <<>>

\* GET /d/../f1, whose target /w/f1 exists, has been answered with 400
C8_Witness ==
    \E r \in Ended :
        /\ r.requestURI = <<"/", "d", "/", ".", ".", "/", "f", "1">>
        /\ r.method = <<"G", "E", "T">>
        /\ r.statusCode = 400
        /\ r.out = ErrorResponse(400)

\* C9: a request line that was read and is not three words with GET first and
\* HTTP/1.0 or HTTP/1.1 last ends with status 501; no header is read and no
\* file touched, and the 501 response is what is handed to Send
C9_NotImplemented ==
    \A r \in Handlers :
        (HasLine(r) /\ ~IsGetLine(Words(r.requestLine))) =>
            /\ r.statusCode = 501
            /\ r.nhdr = 0
            /\ r.fsAccess = 0
            /\ r.file = <<>>
            /\ r.pc \in {"sendStatusLine", "load", "store", "sem_post", "Send", "loop_end"}
            /\ r.pc = "loop_end" => r.nsend = 1 /\ r.tx = ErrorResponse(501)

\* a GET with version HTTP/2.0 has been answered with 501
C9_Witness ==
    \E r \in Ended :
        /\ r.method = <<"G", "E", "T">>
        /\ r.httpVersion = <<"H", "T", "T", "P", "/", "2", ".", "0">>
        /\ r.statusCode = 501
        /\ r.out = ErrorResponse(501)

\* the file a URI names under the web root
Target(u) ==
    IF u[Len(u)] = "/" THEN webRoot \o u \o <<"i", "n", "d", "e", "x", ".", "h", "t", "m", "l">> ELSE webRoot \o u

\* C10: a GET that reached handleFileRequest and names an existing regular
\* file, with no read error and every send complete, has put on the
\* connection "HTTP/1.0 200 OK\r\n\r\n" and then the contents of the file,
\* in one send per chunk of DISK_IO_BUF_SIZE bytes
C10_FileBytes ==
    \A r \in Ended :
        LET w == Words(r.requestLine)
        IN  (/\ HasLine(r) /\ IsGetLine(w)
             /\ r.file # <<>>
             /\ CanOpen(Target(w[2]))
             /\ ~r.ferr
             /\ r.out = r.tx) =>
                /\ r.statusCode = 200
                /\ r.out = <<"H", "T", "T", "P", "/", "1", ".", "0", " ", "2", "0", "0", " ", "O", "K", "\r", "\n", "\r", "\n">> \o FileContents(Target(w[2]))
                /\ r.nsend = 1 + (FileSize(Target(w[2])) + DISK_IO_BUF_SIZE - 1)
                                    \div DISK_IO_BUF_SIZE

\* a file of MaxChunks whole chunks has been sent in full
C10_Witness ==
    \E r \in Ended :
        /\ r.file = <<"/", "w", "/", "f", "5">>
        /\ ~r.ferr
        /\ r.nsend = 1 + MaxChunks
        /\ r.out = r.tx
        /\ Len(r.out) = 19 + MaxChunks * DISK_IO_BUF_SIZE

(* ------------------------------------------------------------------ *)
(* Properties of the fork server's parent                               *)
(* ------------------------------------------------------------------ *)

\* C13: every child that has terminated is eventually reaped by the parent
\* for as long as the parent runs
C13_EveryChildReaped ==
    \A c \in ChildIds :
        (child[c].pc = "exit") ~> (child[c].pc = "reaped" \/ parent.pc = "dead")

\* C14: every SIGUSR1 delivered to the parent, at whatever point of its loop,
\* is eventually followed by the report (after which key is 0 again) for as
\* long as the parent runs
C14_EverySignalReported ==
    (key = 1) ~> (key = 0 \/ parent.pc = "dead")

\* C15: under every interleaving of SIGUSR1 with the parent's loop, each
\* connection accept has returned is in the hands of exactly one child, the
\* one exception being the connection the parent has just accepted and not
\* yet forked for; and while the parent is on the report path after an
\* interrupted accept it holds no connection and every accepted connection
\* has its child
C15_NoLossNoDuplicate ==
    /\ \A k \in 1..parent.naccepted :
          LET HandedTo == {c \in Born : child[c].clntSock = k}
          IN  \/ Cardinality(HandedTo) = 1
              \/ /\ HandedTo = {}
                 /\ k = parent.naccepted /\ k = parent.clntSock
                 /\ parent.pc \in {"fork", "dead"}
    /\ \A c \in Born : child[c].clntSock \in 1..parent.naccepted
    /\ parent.pc \in {"report", "fprintf", "sem_post"} =>
          /\ parent.clntSock = -1
          /\ Cardinality(Born) = parent.naccepted

\* MaxConn connections were accepted, a signal interrupted an accept and was
\* reported, and every connection has its child
C15_Witness ==
    /\ parent.naccepted = MaxConn
    /\ Cardinality(Born) = MaxConn
    /\ reports >= 1
    /\ parent.pc = "accept"

(* ------------------------------------------------------------------ *)
(* Properties of the thread-pool server when a system call fails        *)
(* ------------------------------------------------------------------ *)

C16_DestroyReleasesQueued ==
    acc.pc = "destroyed" =>
        /\ q.length = 0 /\ q.first = NoMsg /\ q.last = NoMsg
        /\ DOMAIN msg = {}
        /\ \A i \in (Len(gets) + 1)..Len(puts) : closes[puts[i]] = 1

(* ------------------------------------------------------------------ *)
(* Order of the bytes of a response                                     *)
(* ------------------------------------------------------------------ *)

\* C17: on every lifecycle that has handed any bytes to send, the first of
\* them are the status line "HTTP/1.0 <code> <reason>\r\n\r\n" of its status,
\* so that every body byte comes after it
C17_StatusLineFirst ==
    \A r \in Handlers :
        r.tx # <<>> =>
            LET sl == StatusLine(r.statusCode)
            IN  /\ Len(r.tx) >= Len(sl)
                /\ SubSeq(r.tx, 1, Len(sl)) = sl

(* ------------------------------------------------------------------ *)
(* Properties of the acceptor of the thread-pool server                 *)
(* ------------------------------------------------------------------ *)

C19_WaitsOnAllAfterZero ==
    /\ [](acc.pc = "select" => acc.readfds = servSocks)
    /\ \A s \in SockIds :
          (\E fd \in servSocks : \E i \in DOMAIN backlog[fd] : backlog[fd][i] = s)
              ~> (Count(puts, s) = 1)

C21_QueueStructure ==
    q.mutex = Unlocked =>
        /\ (q.length = 0) <=> (q.first = NoMsg /\ q.last = NoMsg)
        /\ (q.first = NoMsg) <=> (q.last = NoMsg)
        /\ q.length = Len(Chain(msg, q.first))
        /\ q.length > 0 =>
              /\ q.last \in DOMAIN msg
              /\ msg[q.last].next = NoMsg
              /\ Chain(msg, q.first)[q.length] = msg[q.last].sock

\* the queue holds one node after two puts and one get: first and last are
\* the same node
C21_Witness ==
    /\ q.mutex = Unlocked
    /\ Len(puts) = 2 /\ Len(gets) = 1
    /\ q.length = 1
    /\ q.first = q.last /\ q.first # NoMsg

\* C22: queue_get returns only with a socket taken from a queue that was not
\* empty, and at every moment there is a later state in which every socket
\* put into the queue so far has been returned by a queue_get, so that no
\* socket stays in the queue for ever
C22_NoLostWakeup ==
    /\ [][gets' # gets =>
             /\ q.length > 0
             /\ gets' = Append(gets, Chain(msg, q.first)[1])]_vars
    /\ []<>(\A s \in SockIds : Count(puts, s) = 1 => Count(gets, s) = 1)

\* a socket has been linked and the mutex released, pthread_cond_signal is
\* still to come, and every worker is asleep on the condition
C22_Witness ==
    /\ acc.pc = "cond_signal"
    /\ q.length = 1
    /\ waiting = WorkerIds
    /\ \A w \in WorkerIds : thr[w].pc = "cond_wait"

(* ------------------------------------------------------------------ *)
(* Thread-pool server: the workers on a full queue, every worker        *)
(* serving one stream for each way through the request lifecycle        *)
(* ------------------------------------------------------------------ *)

\* one stream for each way from the request line to loop_end (lines
\* 955-1034): end of file, a URI without "/" (400), POST (501), a directory
\* (403), no such file (404), a file of two bytes (200, or a transfer that
\* send aborts)
PathInputs ==
    { <<>>,
      Request(GET, <<"f","1">>, HTTP10),
      Request(POST, <<"/","f","1">>, HTTP10),
      Request(GET, <<"/","d">>, HTTP10),
      Request(GET, <<"/","x">>, HTTP10),
      Request(GET, <<"/","f","1">>, HTTP10) }

\* main has accepted MaxSock connections and put them into the queue before
\* any worker has run, the last of them from the last port, and is back in
\* select; no further peer connects
InitOwn ==
    /\ InitFork
    /\ q = [mutex |-> Unlocked, first |-> 1, last |-> MaxSock, length |-> MaxSock]
    /\ msg = [n \in 1..MaxSock |->
                [sock |-> n, next |-> IF n < MaxSock THEN n + 1 ELSE NoMsg]]
    /\ waiting = {}
    /\ acc = [AccInit EXCEPT !.validfd = nfds]
    /\ thr = [w \in WorkerIds |-> [NoConn EXCEPT !.pc = "queue_get"]]
    /\ backlog = [fd \in servSocks |-> <<>>]
    /\ nsock = MaxSock
    /\ puts = [n \in 1..MaxSock |-> n]
    /\ gets = <<>>
    /\ closes = [s \in SockIds |-> 0]

SpecOwn ==
    /\ InitOwn
    /\ [][\/ \E w \in WorkerIds : WorkerGets(w)
          \/ \E w \in WorkerIds : WorkerReads(w, PathInputs)
          \/ \E w \in WorkerIds : WorkerResponds(w)]_vars

C24_FailedSendAbsorbed ==
    [][LET SendFails(r, r2) ==
               /\ r.pc = "fread"
               /\ r2.nsend = r.nsend + 1
               /\ Len(r2.out) - Len(r.out) # Len(r2.tx) - Len(r.tx)
           Aborts(r, r2) ==
               /\ r2.pc = "loop_end"
               /\ r2.statusCode = 200
               /\ r2.fp = "closed"
               /\ r2.pos = r.pos
           Ends(r, next) ==
               /\ LogAndClose(r, next).tx = r.tx
               /\ LogAndClose(r, next).logged = <<r.statusCode>>
               /\ LogAndClose(r, next).closed
       IN  /\ \A w \in WorkerIds :
                /\ SendFails(thr[w], thr'[w]) =>
                      /\ Aborts(thr[w], thr'[w])
                      /\ \A v \in WorkerIds \ {w} : thr'[v] = thr[v]
                      /\ UNCHANGED <<q, msg, waiting, acc, closes>>
                /\ (thr[w].pc = "loop_end" /\ thr'[w] # thr[w]) =>
                      /\ Ends(thr[w], "queue_get")
                      /\ thr'[w].pc = "queue_get"
                      /\ thr'[w].clntSock = 0
                      /\ closes' = [closes EXCEPT ![thr[w].clntSock] = @ + 1]
                      /\ \A v \in WorkerIds \ {w} : thr'[v] = thr[v]
                      /\ UNCHANGED <<q, msg, waiting, acc>>
           /\ \A c \in ChildIds :
                /\ SendFails(child[c], child'[c]) => Aborts(child[c], child'[c])
                /\ (child[c].pc = "loop_end" /\ child'[c] # child[c]) =>
                      /\ Ends(child[c], "exit")
                      /\ child'[c].pc = "exit"]_vars

\* a worker at loop_end after the send of the second chunk of a file failed
C24_Witness ==
    \E w \in WorkerIds :
       /\ thr[w].pc = "loop_end"
       /\ thr[w].statusCode = 200
       /\ thr[w].nsend = 3
       /\ thr[w].pos = DISK_IO_BUF_SIZE
       /\ FileSize(thr[w].file) = MaxChunks * DISK_IO_BUF_SIZE
       /\ Len(thr[w].out) < Len(thr[w].tx)
       /\ thr[w].fp = "closed"

\* C25: no step lowers num_two, num_three, num_four or num_five; a step that
\* changes the counters raises exactly one of them by one; and every
\* execution of a counting statement (the write of area->num_X += 1 or
\* area->num_two++) is such a step
C25_CountersOnlyIncrease ==
    [][LET Counters == {"num_two", "num_three", "num_four", "num_five"}
           OneMore  == \E k \in Counters :
                          /\ area'[k] = area[k] + 1
                          /\ \A j \in Counters \ {k} : area'[j] = area[j]
       IN  /\ \A k \in Counters : area'[k] >= area[k]
           /\ (\E k \in Counters : area'[k] # area[k]) => OneMore
           /\ \A c \in ChildIds :
                 (child[c].pc = "store" /\ child'[c].pc # "store") => OneMore]_vars

(* ------------------------------------------------------------------ *)
(* Fork server: the critical sections under fair scheduling             *)
(* ------------------------------------------------------------------ *)

\* a child from the request line to its sem_wait in one step: the request
\* line, the headers and handleFileRequest up to the sem_wait of
\* sendStatusLine, of the /statistics branch or of the directory branch
\* (lines 445-536, 262-326, 178); a peer that closes at once takes the child
\* to loop_end
ChildArrives(c) ==
    /\ child[c].pc = "fgets"
    /\ \E inp \in ForkInputs, isStatistics \in BOOLEAN :
          LET RECURSIVE Headers(_)
              Headers(r) == IF r.pc = "headers" THEN Headers(ReadHeader(r)) ELSE r
              h == Headers(ReadRequestLine([child[c] EXCEPT !.inp = inp]))
          IN  /\ isStatistics \in StrcmpStatistics(h.requestURI)
              /\ child' = [child EXCEPT ![c] =
                              IF h.pc = "handleFileRequest"
                              THEN HandleFileRequestFork(h, isStatistics)
                              ELSE h]
    /\ UNCHANGED <<thrVars, area, key, parent, nsig, fin, reports>>

\* a child from the first send after its sem_post to exit(0) in one step:
\* the status line and the file, the statistics page or the directory
\* listing, then the log line and fclose(clntFp) (lines 198-219, 134-170,
\* 222-260, 328-353, 538-558)
ChildFinishes(c) ==
    /\ child[c].pc \in {"Send", "showstatistics", "list_directory", "loop_end"}
    /\ child' = [child EXCEPT ![c] = [NoConn EXCEPT !.pc = "exit",
                                                     !.clntSock = child[c].clntSock]]
    /\ fin' = [fin EXCEPT ![ClassOf(child[c].statusCode)] = @ + 1]
    /\ UNCHANGED <<thrVars, area, key, parent, nsig, reports>>

\* the parent has accepted MaxConn connections and forked a child for each,
\* no child has read its request line yet, and the parent is back in accept
InitSem ==
    /\ InitThread
    /\ area = AreaInit
    /\ key = 0
    /\ parent = [ParentInit EXCEPT !.pid = MaxConn, !.clntSock = MaxConn,
                                   !.naccepted = MaxConn]
    /\ child = [c \in ChildIds |-> [NewConn EXCEPT !.clntSock = c]]
    /\ nsig = 0
    /\ fin = FinInit
    /\ reports = 0

\* the forking server from there on, with the critical sections step by
\* step. A process that is in sem_wait with the semaphore free, or between
\* sem_wait and sem_post, is scheduled; nothing is assumed of the peers, so a
\* child may stay for ever before its first read or before its first send,
\* and the parent may stay in accept
SpecSemFair ==
    /\ InitSem
    /\ [][\/ ParentSemWait \/ ParentReport \/ ParentSemPost \/ SignalParent
          \/ \E c \in ChildIds : ChildArrives(c)
          \/ \E c \in ChildIds :
                \/ ChildSemWait(c) \/ ChildLoad(c) \/ ChildStore(c) \/ ChildSemPost(c)
          \/ \E c \in ChildIds : ChildFinishes(c)
          \/ \E c \in ChildIds : SignalChild(c)]_vars
    /\ WF_vars(ParentSemWait \/ ParentReport \/ ParentSemPost)
    /\ \A c \in ChildIds :
          WF_vars(ChildSemWait(c) \/ ChildLoad(c) \/ ChildStore(c) \/ ChildSemPost(c))

\* C26: a process that holds the semaphore is between its sem_wait and its
\* sem_post, where there is no send, read, fork or accept; a child that reads
\* its socket or sends holds nothing; the semaphore is free whenever no
\* process holds it; and no process stays in sem_wait for ever (again and
\* again it is not there), whatever the other processes and their peers do
C26_SemNotHeldAcrossIO ==
    /\ [](/\ \A c \in ChildIds :
               /\ child[c].hold => child[c].pc \in {"load", "store", "sem_post"}
               /\ child[c].pc \in {"fgets", "headers", "Send", "showstatistics",
                                   "list_directory", "fread"} => ~child[c].hold
          /\ parent.hold => parent.pc \in {"fprintf", "sem_post"}
          /\ parent.pc = "accept" => ~parent.hold
          /\ (~parent.hold /\ \A c \in ChildIds : ~child[c].hold) => area.sem >= 1)
    /\ \A c \in ChildIds : []<>(child[c].pc \notin SemSites)
    /\ []<>(parent.pc # "report")

\* a child waits in sem_wait for the semaphore another child holds, while
\* the parent is in accept
C26_Witness ==
    \E c, d \in ChildIds :
       /\ child[c].pc \in SemSites
       /\ child[d].hold
       /\ area.sem = 0
       /\ parent.pc = "accept"

\* C27: a child executes at most one counting statement for its connection,
\* and executes it before anything is handed to send; when the lifecycle is
\* at loop_end the counters are the ones the connection found, but for the
\* counter of the class of the final status, which is one higher; it is
\* unchanged as well when the peer closed before the end of the headers and
\* nothing was sent (fin holds the counters the connection found: the
\* connections before it were counted as they were logged)
C27_NoDoubleCounting ==
    \A c \in ChildIds :
       LET r == child[c]
           Classes == { <<"num_two", "two">>, <<"num_three", "three">>,
                        <<"num_four", "four">>, <<"num_five", "five">> }
       IN  /\ r.incs <= 1
           /\ r.nsend > 0 => r.incs = 1
           /\ r.pc = "store" => r.incs = 0 /\ r.nsend = 0
           /\ r.pc = "loop_end" =>
                 /\ r.incs = (IF EndedByEOF(r) THEN 0 ELSE 1)
                 /\ r.incs = 0 => r.nsend = 0
                 /\ \A k \in Classes :
                       area[k[1]] = fin[k[2]] +
                          (IF r.incs = 1 /\ ClassOf(r.statusCode) = k[2] THEN 1 ELSE 0)

\* a child at loop_end after the statistics page: num_two counted once, one
\* send
C27_Witness ==
    \E c \in ChildIds :
       /\ child[c].pc = "loop_end"
       /\ child[c].site = "statistics"
       /\ child[c].incs = 1
       /\ child[c].nsend = 1
       /\ area.num_two = fin.two + 1

====
